---- MODULE Spec2Model ----
(***************************************************************************)
(* State-machine model of the MediaCrawler scraping core:                  *)
(*   - EnhancedWeiboScraper: account pool, rotate_account, fetch_comments  *)
(*     (src/multiaccountweiboscraper.py)                                   *)
(*   - WeiboCommentScraper: progress store, batches, retries               *)
(*     (src/comment.py)                                                    *)
(*   - ProxyManager: proxy pool with expiry (src/sdk/proxy_manager.py)     *)
(*   - WeiboCrawler.get_note_comments: block / timeout counters            *)
(*     (src/media_platform/weibo/core.py)                                  *)
(* Each subsystem has its own specification over the shared variables; the *)
(* variables of the other subsystems stay at their initial values.         *)
(* Time is in whole seconds.  Coroutines are cut at their await points:    *)
(* the code between two awaits runs without interleaving (asyncio).        *)
(***************************************************************************)
EXTENDS Integers, Sequences, FiniteSets, TLC

-----------------------------------------------------------------------------
(* Bounds of the model *)

\* number of WeiboAccount objects in scraper.accounts
NumAccounts == 2
\* number of post ids handed to batch_get_comments (one fetch_comments task each)
NumPosts == 2
\* largest `concurrency` argument of batch_get_comments
MaxConcurrency == 2
\* the clock is advanced at most this many times in a run
MaxTicks == 1
\* the platform fails at most this many requests in a run
MaxFailures == 2
\* requests that may raise in a run that follows one post through its retries
MaxRetryFailures == 4

-----------------------------------------------------------------------------
(* Program constants *)

\* EnhancedWeiboScraper.max_retries
max_retries == 3
\* EnhancedWeiboScraper.error_threshold
error_threshold == 5
\* EnhancedWeiboScraper.request_count_threshold
request_count_threshold == 100
\* set_cooldown(minutes=20) on a 412 / 403 answer
BlockCooldownMinutes == 20
\* set_cooldown(minutes=15) when error_count reaches error_threshold
ErrorCooldownMinutes == 15
\* seconds per minute in set_cooldown
SecondsPerMinute == 60
\* rotate_account sleeps wait_time + 1
CooldownBuffer == 1

Accounts == 1..NumAccounts
\* fetch_comments tasks, one per entry of post_ids
Tasks == 1..NumPosts
PostIds == 1..NumPosts
NoAccount == 0

VARIABLES
    now,                 \* time.time()
    ticks,               \* number of advances of the clock so far
    failures,            \* number of requests that have raised so far
    failure_budget,      \* number of requests that may raise in this run
    \* --- EnhancedWeiboScraper
    accounts,            \* scraper.accounts: account -> record of WeiboAccount fields
    account_lock,        \* scraper.account_lock is locked
    processed_comments,  \* scraper.processed_comments
    stats,               \* scraper.stats (CommentScrapingStats)
    with_retry,          \* the with_retry argument of batch_get_comments
    concurrency,         \* the concurrency argument of batch_get_comments
    post_ids,            \* the post_ids argument of batch_get_comments (task -> post id)
    fc_pc,               \* fetch_comments task of each post: position
    fc_account,          \* fetch_comments: local `account` (NoAccount = unbound)
    fc_retries,          \* fetch_comments: local `retries`
    fc_site,             \* which rotate_account call is running: 1 = line 594, 2 = line 640
    fc_in_lock,          \* the task is inside `async with self.account_lock`
    fc_wake,             \* end of the task's asyncio.sleep in rotate_account
    fc_result,           \* how the task ended: "none", "ok", "failed", "skipped", "raised"
    long_pauses,         \* account -> number of long pauses taken with it
    last_select,         \* the latest return of rotate_account (observation)
    fc_attempt           \* fetch_comments: the account returned at line 594 in this
                         \* round and its request_count on return (observation)

varsAcc == <<accounts, account_lock, processed_comments, stats, with_retry, concurrency,
             post_ids, fc_pc,
             fc_account, fc_retries, fc_site, fc_in_lock, fc_wake, fc_result,
             long_pauses, last_select, fc_attempt>>

varsAccounts == <<now, ticks, failures, failure_budget, varsAcc>>

-----------------------------------------------------------------------------
(* WeiboAccount *)

\* WeiboAccount.__init__ after initialize(): only is_logged_in and the request
\* count accumulated by earlier batches differ between accounts
NewAccount(logged, requests) ==
    [is_logged_in |-> logged, last_used_time |-> 0, request_count |-> requests,
     error_count |-> 0, cooldown_until |-> 0]

\* WeiboAccount.is_in_cooldown
is_in_cooldown(a) == now < accounts[a].cooldown_until

\* WeiboAccount.set_cooldown: the new cooldown_until
set_cooldown(minutes) == now + (minutes * SecondsPerMinute)

-----------------------------------------------------------------------------
(* EnhancedWeiboScraper.rotate_account *)

\* a plausible slip: the cooldown test dropped from the filter
ActiveAccounts_NoCooldownTest == {a \in Accounts : accounts[a].is_logged_in}

\* line 395: active_accounts
ActiveAccounts ==
    {a \in Accounts : accounts[a].is_logged_in /\ ~is_in_cooldown(a)}

\* line 400: cooldown_accounts
CooldownAccounts ==
    {a \in Accounts : accounts[a].is_logged_in /\ is_in_cooldown(a)}

\* a plausible slip: the lock is not consulted
LockAvailable_NoLock == TRUE

\* line 394: `async with self.account_lock` can be entered (asyncio.Lock is not
\* reentrant: the holder itself cannot enter again)
LockAvailable == ~account_lock

\* the sort key of line 416, compared lexicographically
KeyLess(a, b) ==
    LET x == accounts[a]
        y == accounts[b]
    IN  \/ x.error_count < y.error_count
        \/ /\ x.error_count = y.error_count
           /\ x.last_used_time < y.last_used_time
        \/ /\ x.error_count = y.error_count
           /\ x.last_used_time = y.last_used_time
           /\ x.request_count < y.request_count

KeyEqual(a, b) ==
    /\ accounts[a].error_count = accounts[b].error_count
    /\ accounts[a].last_used_time = accounts[b].last_used_time
    /\ accounts[a].request_count = accounts[b].request_count

\* a plausible slip: the first active account of self.accounts, unsorted
FirstSorted_Unsorted(S) == CHOOSE a \in S : \A b \in S : a <= b

\* lines 416-417: list.sort is stable, so equal keys keep the order of self.accounts
FirstSorted(S) ==
    CHOOSE a \in S : \A b \in S \ {a} : KeyLess(a, b) \/ (KeyEqual(a, b) /\ a < b)

\* lines 402-403: the cooldown account that becomes available first
NextAvailable(S) ==
    CHOOSE a \in S : \A b \in S \ {a} :
        \/ accounts[a].cooldown_until < accounts[b].cooldown_until
        \/ (accounts[a].cooldown_until = accounts[b].cooldown_until /\ a < b)

\* line 404: wait_time
WaitTime(a) ==
    IF accounts[a].cooldown_until - now > 0 THEN accounts[a].cooldown_until - now ELSE 0

\* lines 420-421: the chosen account marked used
MarkUsed(a) ==
    [accounts EXCEPT ![a].last_used_time = now,
                     ![a].request_count = accounts[a].request_count + 1]

-----------------------------------------------------------------------------
(* CommentScrapingStats *)

NewStats ==
    [total_posts_processed |-> 0, successful_posts |-> 0, failed_posts |-> 0,
     empty_posts |-> 0, rate_limited_posts |-> 0]

\* CommentScrapingStats.add_success
add_success(st) ==
    [st EXCEPT !.successful_posts = st.successful_posts + 1,
               !.total_posts_processed = st.total_posts_processed + 1]

\* CommentScrapingStats.add_failure(error_type)
add_failure(st, error_type) ==
    [st EXCEPT !.failed_posts = st.failed_posts + 1,
               !.total_posts_processed = st.total_posts_processed + 1,
               !.empty_posts = IF error_type = "empty" THEN st.empty_posts + 1
                               ELSE st.empty_posts,
               !.rate_limited_posts = IF error_type = "rate_limited"
                                      THEN st.rate_limited_posts + 1
                                      ELSE st.rate_limited_posts]

-----------------------------------------------------------------------------
(* EnhancedWeiboScraper.batch_get_comments.fetch_comments, one task per post *)

\* tasks holding the semaphore of line 579
InSemaphore == {t \in Tasks : fc_pc[t] \notin {"queued", "done"}}

\* positions between the return of rotate_account and the end of the attempt
AttemptPcs == {"pacing", "long_pause", "request1", "request2"}

\* lines 582-589: enter the semaphore, skip a processed post, start the retry loop
FcStart(t) ==
    /\ fc_pc[t] = "queued"
    /\ Cardinality(InSemaphore) < concurrency
    /\ IF post_ids[t] \in processed_comments
       THEN /\ fc_pc' = [fc_pc EXCEPT ![t] = "done"]
            /\ fc_result' = [fc_result EXCEPT ![t] = "skipped"]
            /\ UNCHANGED fc_site
       ELSE /\ fc_pc' = [fc_pc EXCEPT ![t] = "rotate"]
            /\ fc_site' = [fc_site EXCEPT ![t] = 1]
            /\ UNCHANGED fc_result
    /\ UNCHANGED <<now, ticks, failures, failure_budget, accounts, account_lock, processed_comments, stats, with_retry,
                   concurrency, post_ids, fc_account, fc_retries, fc_in_lock, fc_wake,
                   long_pauses, last_select, fc_attempt>>

\* rotate_account, lines 394-395 and 412-425: an account qualifies; it is marked
\* used and returned, and the lock is released on the way out
RotateSelect(t) ==
    /\ fc_pc[t] = "rotate"
    /\ LockAvailable
    /\ ActiveAccounts # {}
    /\ LET a == FirstSorted(ActiveAccounts)
       IN  /\ accounts' = MarkUsed(a)
           /\ fc_account' = [fc_account EXCEPT ![t] = a]
           /\ last_select' = [account |-> a,
                              in_cooldown |-> is_in_cooldown(a),
                              was_cooled |-> accounts[a].cooldown_until > 0]
           /\ fc_attempt' = IF fc_site[t] = 1
                            THEN [fc_attempt EXCEPT
                                     ![t] = [account |-> a,
                                             request_count |-> accounts[a].request_count + 1]]
                            ELSE fc_attempt
    /\ account_lock' = FALSE
    /\ fc_in_lock' = [fc_in_lock EXCEPT ![t] = FALSE]
    /\ fc_pc' = [fc_pc EXCEPT ![t] = IF fc_site[t] = 1 THEN "pacing" ELSE "request2"]
    /\ UNCHANGED <<now, ticks, failures, failure_budget, processed_comments, stats, with_retry, concurrency, post_ids, fc_retries,
                   fc_site, fc_wake, fc_result, long_pauses>>

\* rotate_account, lines 397-406: every logged-in account is in cooldown; the
\* caller sleeps wait_time + 1 inside the `async with`
RotateWait(t) ==
    /\ fc_pc[t] = "rotate"
    /\ LockAvailable
    /\ ActiveAccounts = {}
    /\ CooldownAccounts # {}
    /\ account_lock' = TRUE
    /\ fc_in_lock' = [fc_in_lock EXCEPT ![t] = TRUE]
    /\ fc_wake' = [fc_wake EXCEPT
                      ![t] = now + WaitTime(NextAvailable(CooldownAccounts)) + CooldownBuffer]
    /\ fc_pc' = [fc_pc EXCEPT ![t] = "cooldown_wait"]
    /\ UNCHANGED <<now, ticks, failures, failure_budget, accounts, processed_comments, stats, with_retry, concurrency, post_ids,
                   fc_account, fc_retries, fc_site, fc_result, long_pauses, last_select, fc_attempt>>

\* rotate_account, line 407: the sleep is over and rotate_account calls itself,
\* still inside the outer `async with`
CooldownWake(t) ==
    /\ fc_pc[t] = "cooldown_wait"
    /\ now >= fc_wake[t]
    /\ fc_pc' = [fc_pc EXCEPT ![t] = "rotate"]
    /\ UNCHANGED <<now, ticks, failures, failure_budget, accounts, account_lock, processed_comments, stats, with_retry,
                   concurrency, post_ids, fc_account, fc_retries, fc_site, fc_in_lock, fc_wake,
                   fc_result, long_pauses, last_select, fc_attempt>>

\* a plausible slip: one more round than max_retries allows
RetryAgain_OneMore(retries) == retries <= max_retries + 1 /\ with_retry

\* lines 591 and 695: after `retries` failed rounds the loop goes on
RetryAgain(retries) == retries <= max_retries /\ with_retry

\* rounds of the retry loop the task has started for its post
Attempts(t) == IF fc_pc[t] \in {"queued", "done"} THEN 0 ELSE fc_retries[t] + 1

\* fetch_comments, lines 691-705: the outer handler, after the inner handler (if
\* any) left the accounts as acc and the statistics as st
OuterExcept(t, acc, st) ==
    LET a == fc_account[t]
        retries == fc_retries[t] + 1
    IN  /\ accounts' = [acc EXCEPT ![a].error_count = acc[a].error_count + 1]
        /\ IF RetryAgain(retries)
           THEN /\ fc_pc' = [fc_pc EXCEPT ![t] = "rotate"]
                /\ fc_site' = [fc_site EXCEPT ![t] = 1]
                /\ fc_retries' = [fc_retries EXCEPT ![t] = retries]
                /\ stats' = st
                /\ UNCHANGED <<fc_result, fc_account>>
           ELSE /\ fc_pc' = [fc_pc EXCEPT ![t] = "done"]
                /\ fc_result' = [fc_result EXCEPT ![t] = "failed"]
                /\ stats' = add_failure(st, "none")
                /\ fc_retries' = [fc_retries EXCEPT ![t] = 0]
                /\ fc_account' = [fc_account EXCEPT ![t] = NoAccount]
                /\ fc_site' = [fc_site EXCEPT ![t] = 1]

\* rotate_account, lines 408-410, raises: no account is logged in.  At line 594 the
\* handler of line 691 then reads the local `account`, unbound in the first
\* round: the task ends with that error
RotateNoAccount(t) ==
    /\ fc_pc[t] = "rotate"
    /\ LockAvailable
    /\ ActiveAccounts = {}
    /\ CooldownAccounts = {}
    /\ IF fc_account[t] = NoAccount
       THEN /\ fc_pc' = [fc_pc EXCEPT ![t] = "done"]
            /\ fc_result' = [fc_result EXCEPT ![t] = "raised"]
            /\ UNCHANGED <<accounts, stats, fc_retries, fc_site, fc_account>>
       ELSE OuterExcept(t,
                IF fc_site[t] = 2
                THEN [accounts EXCEPT ![fc_account[t]].error_count = @ + 1]
                ELSE accounts,
                stats)
    /\ fc_in_lock' = [fc_in_lock EXCEPT ![t] = FALSE]
    /\ UNCHANGED <<now, ticks, failures, failure_budget, account_lock, processed_comments, with_retry, concurrency, post_ids,
                   fc_wake, long_pauses, last_select, fc_attempt>>

\* lines 601-612: sleep_with_jitter is over; a long pause follows when the
\* account's request count is a multiple of the threshold
PacingDone(t) ==
    /\ fc_pc[t] = "pacing"
    /\ fc_pc' = [fc_pc EXCEPT ![t] =
                    IF accounts[fc_account[t]].request_count % request_count_threshold = 0
                    THEN "long_pause" ELSE "request1"]
    /\ UNCHANGED <<now, ticks, failures, failure_budget, accounts, account_lock, processed_comments, stats, with_retry,
                   concurrency, post_ids, fc_account, fc_retries, fc_site, fc_in_lock, fc_wake,
                   fc_result, long_pauses, last_select, fc_attempt>>

\* line 612: the long pause is over; the first request goes out
LongPauseDone(t) ==
    /\ fc_pc[t] = "long_pause"
    /\ fc_pc' = [fc_pc EXCEPT ![t] = "request1"]
    /\ long_pauses' = [long_pauses EXCEPT ![fc_account[t]] = @ + 1]
    /\ UNCHANGED <<now, ticks, failures, failure_budget, accounts, account_lock, processed_comments, stats, with_retry,
                   concurrency, post_ids, fc_account, fc_retries, fc_site, fc_in_lock, fc_wake,
                   fc_result, last_select, fc_attempt>>

\* a plausible slip: the reset of line 661 left out
ResetErrorCount_Kept(a) == accounts

\* line 661: account.error_count = 0
ResetErrorCount(a) == [accounts EXCEPT ![a].error_count = 0]

\* lines 626-630 and 650-663: the request (first batch short or at the maximum, or
\* second batch) answered; the post is processed and the error count of the
\* account now held is reset
RequestOk(t) ==
    /\ fc_pc[t] \in {"request1", "request2"}
    /\ processed_comments' = processed_comments \cup {post_ids[t]}
    /\ stats' = add_success(stats)
    /\ accounts' = ResetErrorCount(fc_account[t])
    /\ fc_pc' = [fc_pc EXCEPT ![t] = "done"]
    /\ fc_result' = [fc_result EXCEPT ![t] = "ok"]
    /\ fc_retries' = [fc_retries EXCEPT ![t] = 0]
    /\ fc_account' = [fc_account EXCEPT ![t] = NoAccount]
    /\ fc_site' = [fc_site EXCEPT ![t] = 1]
    /\ fc_attempt' = [fc_attempt EXCEPT ![t] = [account |-> NoAccount, request_count |-> 0]]
    /\ UNCHANGED <<now, ticks, failures, failure_budget, account_lock, with_retry, concurrency, post_ids,
                   fc_in_lock, fc_wake, long_pauses, last_select>>

\* lines 631-640: the first batch is full; after a pause the task rotates to a
\* fresh account for the second batch
RequestMore(t) ==
    /\ fc_pc[t] = "request1"
    /\ fc_pc' = [fc_pc EXCEPT ![t] = "rotate"]
    /\ fc_site' = [fc_site EXCEPT ![t] = 2]
    /\ UNCHANGED <<now, ticks, failures, failure_budget, accounts, account_lock, processed_comments, stats, with_retry,
                   concurrency, post_ids, fc_account, fc_retries, fc_in_lock, fc_wake, fc_result,
                   long_pauses, last_select, fc_attempt>>

\* lines 665-689: the inner handler's effect on the accounts, by kind of error
InnerExceptAccounts(a, kind) ==
    CASE kind = "empty" -> accounts
      [] kind = "block" ->
            [accounts EXCEPT ![a].error_count = @ + 1,
                             ![a].cooldown_until = set_cooldown(BlockCooldownMinutes)]
      [] OTHER ->
            [accounts EXCEPT ![a].error_count = @ + 1,
                             ![a].cooldown_until =
                                 IF accounts[a].error_count + 1 >= error_threshold
                                 THEN set_cooldown(ErrorCooldownMinutes) ELSE @]

\* lines 665-689: the inner handler's effect on the statistics
InnerExceptStats(t, kind) ==
    CASE kind = "empty" ->
            IF fc_retries[t] = max_retries THEN add_failure(stats, "empty") ELSE stats
      [] kind = "block" -> add_failure(stats, "rate_limited")
      [] OTHER -> stats

ErrorKinds == {"empty", "block", "other"}

\* lines 665-705: a request raised; inner handler, then outer handler
RequestFail(t) ==
    /\ fc_pc[t] \in {"request1", "request2"}
    /\ failures < failure_budget
    /\ failures' = failures + 1
    /\ \E kind \in ErrorKinds :
          OuterExcept(t, InnerExceptAccounts(fc_account[t], kind),
                      InnerExceptStats(t, kind))
    /\ UNCHANGED <<now, ticks, failure_budget, account_lock, processed_comments, with_retry,
                   concurrency, post_ids, fc_in_lock, fc_wake, long_pauses, last_select, fc_attempt>>

\* instants at which something changes: a cooldown ends, a sleep ends
AccountDeadlines ==
    {accounts[a].cooldown_until : a \in Accounts}
        \cup {fc_wake[t] : t \in {u \in Tasks : fc_pc[u] = "cooldown_wait"}}

\* the clock moves on to one of the coming deadlines
TickAccounts ==
    /\ ticks < MaxTicks
    /\ \E d \in AccountDeadlines :
          /\ d > now
          /\ now' = d
    /\ ticks' = ticks + 1
    /\ UNCHANGED <<failures, failure_budget, varsAcc>>

\* request_count before this batch: the accounts have served earlier batches and
\* are two requests short of the long-pause threshold
InitRequestCounts == {request_count_threshold - 2}

\* which accounts initialize() logged in: the first k of the list
LoggedInChoices ==
    {[a \in Accounts |-> a <= k] : k \in 0..NumAccounts}

\* post_ids may repeat an id; lists equal up to renaming of ids are taken once
PostIdLists ==
    {l \in [Tasks -> PostIds] :
        /\ l[1] = 1
        /\ \A t \in Tasks \ {1} : \E u \in 1..(t - 1) : l[t] <= l[u] + 1}

AccountsStart ==
    /\ now = 1
    /\ ticks = 0
    /\ failures = 0
    /\ failure_budget = MaxFailures
    /\ \E logged \in LoggedInChoices, r \in InitRequestCounts :
          accounts = [a \in Accounts |-> NewAccount(logged[a], r)]
    /\ account_lock = FALSE
    /\ processed_comments = {}
    /\ stats = NewStats
    /\ with_retry \in BOOLEAN
    /\ concurrency \in 1..MaxConcurrency
    /\ post_ids \in PostIdLists
    /\ fc_pc = [t \in Tasks |-> "queued"]
    /\ fc_account = [t \in Tasks |-> NoAccount]
    /\ fc_retries = [t \in Tasks |-> 0]
    /\ fc_site = [t \in Tasks |-> 1]
    /\ fc_in_lock = [t \in Tasks |-> FALSE]
    /\ fc_wake = [t \in Tasks |-> 0]
    /\ fc_result = [t \in Tasks |-> "none"]
    /\ long_pauses = [a \in Accounts |-> 0]
    /\ last_select = [account |-> NoAccount, in_cooldown |-> FALSE,
                      was_cooled |-> FALSE]
    /\ fc_attempt = [t \in Tasks |-> [account |-> NoAccount, request_count |-> 0]]

\* a batch whose posts but the first were processed by an earlier batch, followed
\* through more failures
RetryStart ==
    /\ now = 1
    /\ ticks = 0
    /\ failures = 0
    /\ failure_budget = MaxRetryFailures
    /\ \E logged \in LoggedInChoices, r \in InitRequestCounts :
          accounts = [a \in Accounts |-> NewAccount(logged[a], r)]
    /\ account_lock = FALSE
    /\ processed_comments = PostIds \ {1}
    /\ stats = NewStats
    /\ with_retry \in BOOLEAN
    /\ concurrency \in 1..MaxConcurrency
    /\ post_ids = [t \in Tasks |-> t]
    /\ fc_pc = [t \in Tasks |-> "queued"]
    /\ fc_account = [t \in Tasks |-> NoAccount]
    /\ fc_retries = [t \in Tasks |-> 0]
    /\ fc_site = [t \in Tasks |-> 1]
    /\ fc_in_lock = [t \in Tasks |-> FALSE]
    /\ fc_wake = [t \in Tasks |-> 0]
    /\ fc_result = [t \in Tasks |-> "none"]
    /\ long_pauses = [a \in Accounts |-> 0]
    /\ last_select = [account |-> NoAccount, in_cooldown |-> FALSE,
                      was_cooled |-> FALSE]
    /\ fc_attempt = [t \in Tasks |-> [account |-> NoAccount, request_count |-> 0]]

\* a batch on a scraper whose accounts carry the error count an earlier batch
\* left them with (error_count is reset by a successful request only)
CooldownStart ==
    /\ now = 1
    /\ ticks = 0
    /\ failures = 0
    /\ failure_budget = MaxFailures
    /\ \E logged \in LoggedInChoices, r \in InitRequestCounts,
          e \in {0, error_threshold - 2} :
          accounts = [a \in Accounts |->
                         [NewAccount(logged[a], r) EXCEPT !.error_count = e]]
    /\ account_lock = FALSE
    /\ processed_comments = {}
    /\ stats = NewStats
    /\ with_retry \in BOOLEAN
    /\ concurrency \in 1..MaxConcurrency
    /\ post_ids \in PostIdLists
    /\ fc_pc = [t \in Tasks |-> "queued"]
    /\ fc_account = [t \in Tasks |-> NoAccount]
    /\ fc_retries = [t \in Tasks |-> 0]
    /\ fc_site = [t \in Tasks |-> 1]
    /\ fc_in_lock = [t \in Tasks |-> FALSE]
    /\ fc_wake = [t \in Tasks |-> 0]
    /\ fc_result = [t \in Tasks |-> "none"]
    /\ long_pauses = [a \in Accounts |-> 0]
    /\ last_select = [account |-> NoAccount, in_cooldown |-> FALSE,
                      was_cooled |-> FALSE]
    /\ fc_attempt = [t \in Tasks |-> [account |-> NoAccount, request_count |-> 0]]

\* the steps of one fetch_comments task
TaskStep(t) ==
    \/ FcStart(t) \/ RotateSelect(t) \/ RotateWait(t) \/ CooldownWake(t)
    \/ RotateNoAccount(t) \/ PacingDone(t) \/ LongPauseDone(t)
    \/ RequestOk(t) \/ RequestMore(t) \/ RequestFail(t)

-----------------------------------------------------------------------------
(* WeiboCommentScraper and scrape_comments_for_existing_content             *)
(* (src/comment.py)                                                         *)

\* post ids of the run
NumUnits == 2
\* largest batch_size argument
MaxBatchSize == 2
\* largest max_concurrent_batches argument
MaxConcurrentBatches == 2
\* requests and proxy rotations raise at most this many times in a run
MaxUnitErrors == 4

\* src/comment.py:504 (retry_failed_posts(max_retries=3))
RetryFailedMaxRetries == 3
\* src/comment.py:219 (completed_batches % 5)
SavePeriod == 5
\* src/comment.py:25, in tenths of a second
InitMinDelay == 30
\* src/comment.py:26, in tenths of a second
InitMaxDelay == 120
\* src/comment.py:27 (self.jitter = 0.5), in tenths
jitter == 5

Units == 1..NumUnits
BatchIds == 1..NumUnits

VARIABLES
    progress_file,            \* comment_scraping_progress.json
    success_post_ids,         \* WeiboCommentScraper.success_post_ids
    failed_post_ids,          \* WeiboCommentScraper.failed_post_ids
    min_delay,                \* WeiboCommentScraper.min_delay (tenths of a second)
    max_delay,                \* WeiboCommentScraper.max_delay (tenths of a second)
    content_csv,              \* note ids of data/weibo/search_contents.csv
    existing_comments,        \* note ids of data/weibo/search_comments.csv
    any_logged_in,            \* some account of the scraper is logged in
    ip_proxy_pool,            \* scraper.ip_proxy_pool is set
    batch_size,               \* batch_size of the scrape calls
    max_concurrent_batches,   \* max_concurrent_batches of the scrape calls
    main_pc,                  \* position of scrape_comments_for_existing_content
    main_outcome,             \* how scrape_comments_for_existing_content ended
    retry,                    \* retry_failed_posts: loop variable
    post_ids_to_retry,        \* retry_failed_posts: local list
    retry_backlog,            \* failed_post_ids as retry_failed_posts found them (line 97)
    call_ids,                 \* scrape_comments_for_post_ids: post_ids
    pb_pc,                    \* process_batch task -> position
    pb_idx,                   \* process_batch task -> index of post_id in its batch
    completed_batches,        \* scrape_comments_for_post_ids: completed_batches
    unit_errors,              \* errors raised so far
    loaded_success,           \* success_post_ids as load_progress found them
    submitted,                \* ids passed to scrape_comments_for_post_ids so far
    dispatched,               \* ids for which rotate_account was called
    unit_result,              \* id -> outcome of its last _fetch_comments_with_retry
    last_backoff,             \* the latest backoff_delay and jitter_delay (tenths)
    pb_account,               \* process_batch task -> its local `account` (line 179)
    pb_blocked,               \* process_batch task -> the account whose request got a
                              \* block signal in the previous attempt for the post
    cookie_updates            \* calls of wb_client.update_cookies so far (line 298)

varsProgress == <<progress_file, success_post_ids, failed_post_ids, min_delay, max_delay,
                  content_csv, existing_comments, any_logged_in, ip_proxy_pool,
                  batch_size, max_concurrent_batches, main_pc, main_outcome, retry,
                  post_ids_to_retry, retry_backlog, call_ids, pb_pc, pb_idx,
                  completed_batches,
                  unit_errors, loaded_success, submitted, dispatched, unit_result,
                  last_backoff, pb_account, pb_blocked, cookie_updates>>

\* the file written by save_progress
Snapshot(succ, fail) ==
    [exists |-> TRUE, success_post_ids |-> succ, failed_post_ids |-> fail]

NoProgressFile ==
    [exists |-> FALSE, success_post_ids |-> {}, failed_post_ids |-> {}]

\* list(a set of ids), in ascending order
RECURSIVE SortedSeq(_)
SortedSeq(S) ==
    IF S = {} THEN <<>>
    ELSE LET m == CHOOSE x \in S : \A y \in S : x <= y
         IN  <<m>> \o SortedSeq(S \ {m})

SeqRange(q) == {q[i] : i \in 1..Len(q)}

\* len(batches)
TotalBatches(ids) == (Len(ids) + batch_size - 1) \div batch_size

\* batches[b - 1]
Batch(ids, b) ==
    LET lo == ((b - 1) * batch_size) + 1
        hi == IF b * batch_size < Len(ids) THEN b * batch_size ELSE Len(ids)
    IN  SubSeq(ids, lo, hi)

\* a plausible slip: process_batch skips no post
AlreadyProcessed_Never(post_id, succ) == FALSE

\* line 171: the test that makes process_batch skip a post (`continue`)
AlreadyProcessed(post_id, succ) == post_id \in succ

\* index of the first post at or after i that process_batch does not skip,
\* len(batch) + 1 if there is none
NextUnit(b, i, succ) ==
    LET batch == Batch(call_ids, b)
        cand == {j \in i..Len(batch) : ~AlreadyProcessed(batch[j], succ)}
    IN  IF cand = {} THEN Len(batch) + 1
        ELSE CHOOSE j \in cand : \A k \in cand : j <= k

\* process_batch tasks inside `async with batch_semaphore`
InBatchSemaphore == {b \in BatchIds : pb_pc[b] \in {"delay", "fetch0", "fetch1"}}

\* process_batch runs from the top of its loop at index i, with the sets as given,
\* to its next await (the delay before a post) or to its end (completed_batches,
\* save_progress, return)
RunBatch(b, i, succ, fail) ==
    LET j == NextUnit(b, i, succ)
        completed == completed_batches + 1
    IN  /\ pb_idx' = [pb_idx EXCEPT ![b] = j]
        /\ success_post_ids' = succ
        /\ failed_post_ids' = fail
        /\ IF j <= Len(Batch(call_ids, b))
           THEN /\ pb_pc' = [pb_pc EXCEPT ![b] = "delay"]
                /\ UNCHANGED <<completed_batches, progress_file>>
           ELSE /\ pb_pc' = [pb_pc EXCEPT ![b] = "done"]
                /\ completed_batches' = completed
                /\ progress_file' =
                      IF completed % SavePeriod = 0 \/ completed = TotalBatches(call_ids)
                      THEN Snapshot(succ, fail)
                      ELSE progress_file

\* scrape_comments_for_post_ids(ids): the batches and their tasks
StartCall(ids) ==
    /\ call_ids' = ids
    /\ submitted' = submitted \cup SeqRange(ids)
    /\ completed_batches' = 0
    /\ pb_pc' = [b \in BatchIds |->
                    IF b <= (Len(ids) + batch_size - 1) \div batch_size
                    THEN "queued" ELSE "idle"]
    /\ pb_idx' = [b \in BatchIds |-> 1]

\* gather has every result: every process_batch task of the call returned
CallFinished ==
    /\ main_pc \in {"csv", "retry"}
    /\ \A b \in BatchIds : pb_pc[b] \in {"idle", "done", "raised"}

\* no retry has slept yet
NoBackoff == [backoff_delay |-> 0, jitter_delay |-> 0]

\* line 249: backoff_delay = min(self.max_delay, self.min_delay * (2 ** retry))
BackoffDelay(r) ==
    IF min_delay * (2 ^ r) <= max_delay THEN min_delay * (2 ^ r) ELSE max_delay

\* line 250: 1 + random.uniform(-self.jitter, self.jitter), in tenths: the two
\* ends and the middle of the interval
JitterFactors == {10 - jitter, 10, 10 + jitter}

\* min_delay *= (retry + 1.5)
ScaleDelay(d, r) == (d * ((2 * r) + 3)) \div 2

inputsProgress == <<content_csv, existing_comments, any_logged_in, ip_proxy_pool,
                    batch_size, max_concurrent_batches>>

retryProgress == <<retry, post_ids_to_retry, retry_backlog, min_delay, max_delay>>

attemptProgress == <<pb_account, pb_blocked, cookie_updates>>

\* scrape_comments_for_existing_content up to its first await inside
\* scrape_comments_for_post_ids: login check, WeiboCommentScraper() with
\* load_progress, scrape_comments_for_content_csv with its filter
MainStart ==
    /\ main_pc = "init"
    /\ IF ~any_logged_in
       THEN /\ main_pc' = "closing"
            /\ main_outcome' = "no_accounts"
            /\ UNCHANGED <<progress_file, success_post_ids, failed_post_ids, call_ids,
                           pb_pc, pb_idx, completed_batches, loaded_success, submitted>>
       ELSE LET succ == IF progress_file.exists THEN progress_file.success_post_ids
                        ELSE success_post_ids
                fail == IF progress_file.exists THEN progress_file.failed_post_ids
                        ELSE failed_post_ids
            IN  /\ success_post_ids' = succ
                /\ failed_post_ids' = fail
                /\ loaded_success' = succ
                /\ StartCall(SortedSeq((content_csv \ existing_comments) \ succ))
                /\ main_pc' = "csv"
                /\ UNCHANGED <<main_outcome, progress_file>>
    /\ UNCHANGED <<inputsProgress, attemptProgress, last_backoff, retryProgress, unit_errors, dispatched, unit_result>>

\* the lists a caller can pass to scrape_comments_for_post_ids itself: an id may
\* be listed more than once
DirectLists == UNION {[1..n -> Units] : n \in 0..NumUnits}

\* WeiboCommentScraper(scraper) with load_progress, then a direct call of
\* scrape_comments_for_post_ids(post_ids) up to its first await
DirectCall ==
    /\ main_pc = "init"
    /\ any_logged_in
    /\ LET succ == IF progress_file.exists THEN progress_file.success_post_ids
                    ELSE success_post_ids
           fail == IF progress_file.exists THEN progress_file.failed_post_ids
                   ELSE failed_post_ids
       IN  /\ success_post_ids' = succ
           /\ failed_post_ids' = fail
           /\ loaded_success' = succ
    /\ \E ids \in DirectLists : StartCall(ids)
    /\ main_pc' = "direct"
    /\ UNCHANGED <<inputsProgress, attemptProgress, last_backoff, retryProgress, main_outcome, progress_file,
                   unit_errors, dispatched, unit_result>>

\* gather returned in the direct call: it returns all_comments to its caller
DirectReturn ==
    /\ main_pc = "direct"
    /\ \A b \in BatchIds : pb_pc[b] \in {"idle", "done", "raised"}
    /\ main_pc' = "returned"
    /\ main_outcome' = "direct"
    /\ UNCHANGED <<inputsProgress, attemptProgress, last_backoff, retryProgress, progress_file,
                   success_post_ids, failed_post_ids, call_ids, pb_pc, pb_idx,
                   completed_batches, unit_errors, loaded_success, submitted, dispatched,
                   unit_result>>

\* a process_batch task gets the semaphore and runs to its first await
BatchEnter(b) ==
    /\ pb_pc[b] = "queued"
    /\ \A c \in BatchIds : c < b => pb_pc[c] # "queued"
    /\ Cardinality(InBatchSemaphore) < max_concurrent_batches
    /\ RunBatch(b, 1, success_post_ids, failed_post_ids)
    /\ UNCHANGED <<inputsProgress, attemptProgress, last_backoff, retryProgress, main_pc, main_outcome, call_ids,
                   unit_errors, loaded_success, submitted, dispatched, unit_result>>

\* the delay is over: rotate_account, then the first request of
\* _fetch_comments_with_retry is sent
UnitDispatch(b) ==
    /\ pb_pc[b] = "delay"
    /\ LET post_id == Batch(call_ids, b)[pb_idx[b]]
       IN  IF ~any_logged_in
           THEN \* rotate_account raises, caught by `except Exception`
                /\ RunBatch(b, pb_idx[b] + 1, success_post_ids,
                            failed_post_ids \cup {post_id})
                /\ UNCHANGED <<dispatched, unit_result, pb_account>>
           ELSE /\ dispatched' = dispatched \cup {post_id}
                /\ unit_result' = [unit_result EXCEPT ![post_id] = "none"]
                /\ \E a \in Accounts : pb_account' = [pb_account EXCEPT ![b] = a]
                /\ pb_pc' = [pb_pc EXCEPT ![b] = "fetch0"]
                /\ UNCHANGED <<pb_idx, success_post_ids, failed_post_ids,
                               completed_batches, progress_file>>
    /\ UNCHANGED <<inputsProgress, pb_blocked, cookie_updates, last_backoff, retryProgress, main_pc, main_outcome, call_ids,
                   unit_errors, loaded_success, submitted>>

\* what a request can raise: a network error or timeout, the malformed response
\* of a rate limit ("Expecting value"), or a block signal (an error whose text
\* has 403 or 412: the `else` branch of lines 288-292)
FailureKinds == {"network", "rate_limited", "block"}

\* a plausible slip: the handlers catch network errors only
ExceptException_NetworkOnly(kind) == kind = "network"

\* `except Exception` (lines 202, 272, 335): every failure of a request is one
ExceptException(kind) == kind \in FailureKinds

\* an exception leaves process_batch: the task ends with it
BatchRaises(b) ==
    /\ pb_pc' = [pb_pc EXCEPT ![b] = "raised"]
    /\ UNCHANGED <<pb_idx, success_post_ids, failed_post_ids, completed_batches,
                   progress_file, last_backoff>>

\* the delay is over: rotate_account, then rotate_proxy raises
UnitProxyError(b) ==
    /\ pb_pc[b] = "delay"
    /\ any_logged_in
    /\ ip_proxy_pool
    /\ unit_errors < MaxUnitErrors
    /\ unit_errors' = unit_errors + 1
    /\ LET post_id == Batch(call_ids, b)[pb_idx[b]]
       IN  /\ dispatched' = dispatched \cup {post_id}
           /\ unit_result' = [unit_result EXCEPT ![post_id] = "none"]
           /\ \E a \in Accounts : pb_account' = [pb_account EXCEPT ![b] = a]
           /\ \E kind \in FailureKinds :
                 IF ExceptException(kind)
                 THEN /\ RunBatch(b, pb_idx[b] + 1, success_post_ids,
                                  failed_post_ids \cup {post_id})
                      /\ UNCHANGED last_backoff
                 ELSE BatchRaises(b)
    /\ UNCHANGED <<inputsProgress, pb_blocked, cookie_updates, retryProgress, main_pc, main_outcome, call_ids,
                   loaded_success, submitted>>

\* _fetch_comments_with_retry returns a list (empty or not): the post is added to
\* success_post_ids in both branches
FetchReturned(b, result) ==
    LET post_id == Batch(call_ids, b)[pb_idx[b]]
    IN  /\ unit_result' = [unit_result EXCEPT ![post_id] = result]
        /\ RunBatch(b, pb_idx[b] + 1, success_post_ids \cup {post_id}, failed_post_ids)
        /\ pb_blocked' = [pb_blocked EXCEPT ![b] = NoAccount]
        /\ UNCHANGED <<inputsProgress, pb_account, cookie_updates, last_backoff, retryProgress, main_pc, main_outcome, call_ids,
                       loaded_success, submitted, dispatched>>

\* retry 0: get_note_all_comments returns
Fetch0Ok(b) ==
    /\ pb_pc[b] = "fetch0"
    /\ FetchReturned(b, "ok")
    /\ UNCHANGED unit_errors

\* retry 0: get_note_all_comments raises; the handler (lines 272-292) sleeps by
\* kind of error and touches neither the account nor the session, retry 1 sleeps
\* jitter_delay (lines 247-252) and sends the request of
\* _fetch_comments_alternative with the same `account`
Fetch0Fail(b) ==
    /\ pb_pc[b] = "fetch0"
    /\ unit_errors < MaxUnitErrors
    /\ unit_errors' = unit_errors + 1
    /\ \E kind \in FailureKinds :
          IF ExceptException(kind)
          THEN /\ \E factor \in JitterFactors :
                     last_backoff' = [backoff_delay |-> BackoffDelay(1),
                                      jitter_delay |-> (BackoffDelay(1) * factor) \div 10]
               /\ pb_pc' = [pb_pc EXCEPT ![b] = "fetch1"]
               /\ pb_blocked' = [pb_blocked EXCEPT ![b] =
                                    IF kind = "block" THEN pb_account[b] ELSE NoAccount]
               /\ UNCHANGED <<pb_idx, success_post_ids, failed_post_ids,
                              completed_batches, progress_file>>
          ELSE /\ BatchRaises(b)
               /\ UNCHANGED pb_blocked
    /\ UNCHANGED <<inputsProgress, pb_account, cookie_updates, retryProgress, main_pc, main_outcome, call_ids,
                   loaded_success, submitted, dispatched, unit_result>>

\* retry 1: the request of _fetch_comments_alternative returns
Fetch1Ok(b) ==
    /\ pb_pc[b] = "fetch1"
    /\ FetchReturned(b, "ok")
    /\ UNCHANGED unit_errors

\* retry 1: the request of _fetch_comments_alternative raises; the function
\* catches it (line 335) and returns the comments collected so far, none: the
\* handler of line 272 with its update_cookies (295-300) and the third attempt
\* (_fetch_comments_paged, line 268) are not reached
Fetch1Fail(b) ==
    /\ pb_pc[b] = "fetch1"
    /\ unit_errors < MaxUnitErrors
    /\ unit_errors' = unit_errors + 1
    /\ \E kind \in FailureKinds :
          IF ExceptException(kind)
          THEN FetchReturned(b, "exhausted")
          ELSE /\ BatchRaises(b)
               /\ UNCHANGED <<inputsProgress, attemptProgress, retryProgress, main_pc, main_outcome,
                              call_ids, loaded_success, submitted, dispatched,
                              unit_result>>

\* a plausible slip: the ids still failing are not put back (line 137 left out)
FinalSave_WithoutUpdate(succ, fail) ==
    /\ success_post_ids' = succ
    /\ failed_post_ids' = failed_post_ids
    /\ progress_file' = Snapshot(succ, failed_post_ids)
    /\ main_pc' = "closing"
    /\ UNCHANGED <<call_ids, pb_pc, pb_idx, completed_batches, submitted>>

\* retry_failed_posts returned: save_progress of the caller, then `finally`
FinalSave(succ, fail) ==
    /\ success_post_ids' = succ
    /\ failed_post_ids' = fail
    /\ progress_file' = Snapshot(succ, fail)
    /\ main_pc' = "closing"
    /\ UNCHANGED <<call_ids, pb_pc, pb_idx, completed_batches, submitted>>

\* one round of retry_failed_posts begins
StartRound(r, ids) ==
    /\ retry' = r
    /\ post_ids_to_retry' = ids
    /\ retry_backlog' = IF r = 0 THEN ids ELSE retry_backlog
    /\ failed_post_ids' = {}
    /\ min_delay' = ScaleDelay(min_delay, r)
    /\ max_delay' = ScaleDelay(max_delay, r)
    /\ StartCall(SortedSeq(ids))
    /\ main_pc' = "retry"
    /\ UNCHANGED <<success_post_ids, progress_file>>

\* gather returned in scrape_comments_for_post_ids; its caller goes on to its next
\* await
CallReturn ==
    /\ CallFinished
    /\ IF main_pc = "csv"
       THEN \* retry_failed_posts is called
            IF failed_post_ids = {}
            THEN /\ FinalSave(success_post_ids, failed_post_ids)
                 /\ UNCHANGED retryProgress
            ELSE StartRound(0, failed_post_ids)
       ELSE \* a round of retry_failed_posts ends
            IF failed_post_ids = {}
            THEN /\ FinalSave(success_post_ids, {})
                 /\ retry' = retry
                 /\ post_ids_to_retry' = {}
                 /\ min_delay' = InitMinDelay
                 /\ UNCHANGED retry_backlog
                 /\ max_delay' = InitMaxDelay
            ELSE /\ post_ids_to_retry' = failed_post_ids
                 /\ failed_post_ids' = {}
                 /\ min_delay' = InitMinDelay
                 /\ max_delay' = InitMaxDelay
                 /\ main_pc' = "retry_sleep"
                 /\ UNCHANGED <<retry, retry_backlog, success_post_ids, progress_file, call_ids, pb_pc,
                                pb_idx, completed_batches, submitted>>
    /\ UNCHANGED <<inputsProgress, attemptProgress, last_backoff, main_outcome, unit_errors, loaded_success,
                   dispatched, unit_result>>

\* the sleep between two rounds is over: next round, or the loop ends
RetrySleepDone ==
    /\ main_pc = "retry_sleep"
    /\ IF retry + 1 < RetryFailedMaxRetries
       THEN StartRound(retry + 1, post_ids_to_retry)
       ELSE /\ FinalSave(success_post_ids, failed_post_ids \cup post_ids_to_retry)
            /\ UNCHANGED retryProgress
    /\ UNCHANGED <<inputsProgress, attemptProgress, last_backoff, main_outcome, unit_errors, loaded_success,
                   dispatched, unit_result>>

\* the run is cancelled (KeyboardInterrupt under asyncio.run) while it awaits:
\* CancelledError passes `except Exception`, the tasks of gather are cancelled,
\* the `finally` of retry_failed_posts restores the delays
MainCancel ==
    /\ \/ main_pc \in {"csv", "retry"} /\ ~CallFinished
       \/ main_pc = "retry_sleep"
    /\ main_pc' = "closing"
    /\ main_outcome' = "cancelled"
    /\ pb_pc' = [b \in BatchIds |->
                    IF pb_pc[b] \in {"idle", "done", "raised"} THEN pb_pc[b] ELSE "cancelled"]
    /\ min_delay' = InitMinDelay
    /\ max_delay' = InitMaxDelay
    /\ UNCHANGED <<inputsProgress, attemptProgress, last_backoff, retry, post_ids_to_retry,
                   retry_backlog, progress_file,
                   success_post_ids, failed_post_ids, call_ids, pb_idx,
                   completed_batches, unit_errors, loaded_success, submitted,
                   dispatched, unit_result>>

\* `finally`: scraper.close(), then the function returns
MainClose ==
    /\ main_pc = "closing"
    /\ main_pc' = "returned"
    /\ main_outcome' = IF main_outcome = "none" THEN "completed" ELSE main_outcome
    /\ UNCHANGED <<inputsProgress, attemptProgress, last_backoff, retryProgress, progress_file, success_post_ids,
                   failed_post_ids, call_ids, pb_pc, pb_idx, completed_batches,
                   unit_errors, loaded_success, submitted, dispatched, unit_result>>

\* the files a former run can have left: none, or any two sets of ids
ProgressFiles ==
    {NoProgressFile} \cup
    {Snapshot(s, f) : s \in SUBSET Units, f \in SUBSET Units}

ProgressIdle ==
    /\ progress_file = NoProgressFile
    /\ success_post_ids = {}
    /\ failed_post_ids = {}
    /\ min_delay = InitMinDelay
    /\ max_delay = InitMaxDelay
    /\ content_csv = {}
    /\ existing_comments = {}
    /\ any_logged_in = FALSE
    /\ ip_proxy_pool = FALSE
    /\ batch_size = 1
    /\ max_concurrent_batches = 1
    /\ main_pc = "init"
    /\ main_outcome = "none"
    /\ retry = 0
    /\ post_ids_to_retry = {}
    /\ retry_backlog = {}
    /\ call_ids = <<>>
    /\ pb_pc = [b \in BatchIds |-> "idle"]
    /\ pb_idx = [b \in BatchIds |-> 1]
    /\ completed_batches = 0
    /\ unit_errors = 0
    /\ loaded_success = {}
    /\ submitted = {}
    /\ dispatched = {}
    /\ unit_result = [u \in Units |-> "none"]
    /\ last_backoff = NoBackoff
    /\ pb_account = [b \in BatchIds |-> NoAccount]
    /\ pb_blocked = [b \in BatchIds |-> NoAccount]
    /\ cookie_updates = 0

ProgressStart ==
    /\ progress_file \in ProgressFiles
    /\ success_post_ids = {}
    /\ failed_post_ids = {}
    /\ min_delay = InitMinDelay
    /\ max_delay = InitMaxDelay
    /\ content_csv \in SUBSET Units
    /\ existing_comments \in {{}, {NumUnits}}
    /\ any_logged_in \in BOOLEAN
    /\ ip_proxy_pool \in BOOLEAN
    /\ batch_size \in 1..MaxBatchSize
    /\ max_concurrent_batches \in 1..MaxConcurrentBatches
    /\ main_pc = "init"
    /\ main_outcome = "none"
    /\ retry = 0
    /\ post_ids_to_retry = {}
    /\ retry_backlog = {}
    /\ call_ids = <<>>
    /\ pb_pc = [b \in BatchIds |-> "idle"]
    /\ pb_idx = [b \in BatchIds |-> 1]
    /\ completed_batches = 0
    /\ unit_errors = 0
    /\ loaded_success = {}
    /\ submitted = {}
    /\ dispatched = {}
    /\ unit_result = [u \in Units |-> "none"]
    /\ last_backoff = NoBackoff
    /\ pb_account = [b \in BatchIds |-> NoAccount]
    /\ pb_blocked = [b \in BatchIds |-> NoAccount]
    /\ cookie_updates = 0

-----------------------------------------------------------------------------
(* ProxyManager (src/sdk/proxy_manager.py)                                  *)

\* coroutines that call get_proxy
NumCallers == 2
\* get_proxy is called at most this many times in a run
MaxProxyCalls == 3
\* the clock of the proxy pool is advanced at most this many times in a run
MaxProxyTicks == 2
\* lifetime in seconds of a lease the provider hands out shortly before its end
ShortLifetime == 30

\* src/sdk/proxy_manager.py:121
min_pool_size == 10
\* src/sdk/proxy_manager.py:122
proxy_replacement_threshold == 60
\* src/sdk/proxy_manager.py:252 (max(self.min_pool_size - len(self.proxies), 5))
MinFetch == 5
\* src/sdk/proxy_manager.py:46 (lifetime of a fresh lease)
FreshLifetime == 300

Callers == 1..NumCallers
NoCaller == 0

VARIABLES
    clock,            \* int(time.time())
    proxy_ticks,      \* times the clock was advanced
    enable_proxy,     \* ProxyManager.enable_proxy
    proxies,          \* ProxyManager.proxies
    proxy_lock,       \* ProxyManager.lock: the caller inside `async with`, or NoCaller
    gp_pc,            \* caller -> position in get_proxy
    gp_asked,         \* caller -> count_to_fetch of the provider call it awaits
    gp_calls,         \* get_proxy calls made so far
    gp_result,        \* caller -> what its last get_proxy returned, and when
    gp_trace          \* caller -> the provider calls of its latest get_proxy

varsProxy == <<clock, proxy_ticks, enable_proxy, proxies, proxy_lock, gp_pc, gp_asked,
               gp_calls, gp_result, gp_trace>>

\* ProxyInfo(ip_info)
NewProxy(expired_time_ts) ==
    [expired_time_ts |-> expired_time_ts, last_used |-> 0, task_count |-> 0]

\* ProxyInfo.is_expired
is_expired(p) == clock >= p.expired_time_ts

\* ProxyInfo.time_until_expiry
time_until_expiry(p) ==
    IF p.expired_time_ts - clock > 0 THEN p.expired_time_ts - clock ELSE 0

\* ProxyInfo.mark_used
mark_used(p) == [p EXCEPT !.last_used = clock, !.task_count = p.task_count + 1]

\* _remove_expired_proxies
RemoveExpired(pool) == SelectSeq(pool, LAMBDA p : ~is_expired(p))

\* the proxies that are not about to expire
ValidProxies(pool) ==
    SelectSeq(pool, LAMBDA p : time_until_expiry(p) > proxy_replacement_threshold)

\* sort key (last_used, task_count)
ProxyKeyLess(p, q) ==
    \/ p.last_used < q.last_used
    \/ p.last_used = q.last_used /\ p.task_count < q.task_count

\* list.sort(key=...): stable
RECURSIVE SortProxies(_)
SortProxies(pool) ==
    IF pool = <<>> THEN <<>>
    ELSE LET i == CHOOSE k \in 1..Len(pool) :
                     /\ \A j \in 1..Len(pool) : ~ProxyKeyLess(pool[j], pool[k])
                     /\ \A j \in 1..(k - 1) : ProxyKeyLess(pool[k], pool[j])
             rest == [j \in 1..(Len(pool) - 1) |-> IF j < i THEN pool[j] ELSE pool[j + 1]]
         IN  <<pool[i]>> \o SortProxies(rest)

\* index in pool of the first element of the sorted valid proxies
FirstValid(pool) ==
    CHOOSE k \in 1..Len(pool) :
        /\ time_until_expiry(pool[k]) > proxy_replacement_threshold
        /\ \A j \in 1..Len(pool) :
              time_until_expiry(pool[j]) > proxy_replacement_threshold
                  => ~ProxyKeyLess(pool[j], pool[k])
        /\ \A j \in 1..(k - 1) :
              time_until_expiry(pool[j]) > proxy_replacement_threshold
                  => ProxyKeyLess(pool[k], pool[j])

\* a plausible slip: the floor of 5 dropped from count_to_fetch
CountToFetch_NoFloor(pool) == min_pool_size - Len(pool)

\* count_to_fetch of _replenish_pool_if_needed(needed=None)
CountToFetch(pool) ==
    IF min_pool_size - Len(pool) > MinFetch THEN min_pool_size - Len(pool) ELSE MinFetch

\* n leases with the same expiry
Leases(n, expired_time_ts) == [i \in 1..n |-> NewProxy(expired_time_ts)]

\* what kuaidaili_client.get_proxies(n) can hand back now: none, one or all of the
\* leases asked for, fresh ones or ones near their end
ProviderAnswers(n) ==
    {Leases(k, clock + life) : k \in {0, 1, n}, life \in {ShortLifetime, FreshLifetime}}

NoResult == [kind |-> "none", expired_time_ts |-> 0, at |-> 0, lru |-> TRUE]

\* get_proxy has the lock and a pool of n leases; no provider call yet
NewTrace(n) == [entry_size |-> n, fetches |-> 0, least_asked |-> 0]

\* kuaidaili_client.get_proxies(asked) is called
Fetched(tr, asked) ==
    [tr EXCEPT !.fetches = tr.fetches + 1,
               !.least_asked = IF tr.fetches = 0 \/ asked < tr.least_asked
                               THEN asked ELSE tr.least_asked]

\* no lease of the pool that is not about to expire sorts before pool[k]
LeastRecentlyUsed(pool, k) ==
    \A m \in 1..Len(pool) :
        time_until_expiry(pool[m]) > proxy_replacement_threshold
            => ~ProxyKeyLess(pool[m], pool[k])

\* get_proxy returns None
ReturnNone(c, pool) ==
    /\ proxies' = pool
    /\ gp_result' = [gp_result EXCEPT ![c] = [kind |-> "null", expired_time_ts |-> 0,
                                              at |-> clock, lru |-> TRUE]]
    /\ gp_pc' = [gp_pc EXCEPT ![c] = "idle"]
    /\ gp_asked' = [gp_asked EXCEPT ![c] = 0]
    /\ proxy_lock' = NoCaller

\* lines 176-181: sort, take the first, mark_used, return; the lock is released
ReturnProxy(c, pool, k) ==
    /\ proxies' = [pool EXCEPT ![k] = mark_used(pool[k])]
    /\ gp_result' = [gp_result EXCEPT ![c] =
                        [kind |-> "lease", expired_time_ts |-> pool[k].expired_time_ts,
                         at |-> clock, lru |-> LeastRecentlyUsed(pool, k)]]
    /\ gp_pc' = [gp_pc EXCEPT ![c] = "idle"]
    /\ gp_asked' = [gp_asked EXCEPT ![c] = 0]
    /\ proxy_lock' = NoCaller

\* a plausible slip: the forced replenishment is awaited outside the lock
SelectOrForce_Unlocked(c, pool, tr) ==
    IF pool = <<>>
    THEN /\ ReturnNone(c, pool)
         /\ gp_trace' = [gp_trace EXCEPT ![c] = tr]
    ELSE IF ValidProxies(pool) # <<>>
    THEN /\ ReturnProxy(c, pool, FirstValid(pool))
         /\ gp_trace' = [gp_trace EXCEPT ![c] = tr]
    ELSE /\ proxies' = pool
         /\ gp_pc' = [gp_pc EXCEPT ![c] = "force_replenish"]
         /\ gp_asked' = [gp_asked EXCEPT ![c] = CountToFetch(pool)]
         /\ gp_trace' = [gp_trace EXCEPT ![c] = Fetched(tr, CountToFetch(pool))]
         /\ proxy_lock' = NoCaller
         /\ UNCHANGED gp_result

\* lines 159-170: after the first replenishment, up to the return or the forced
\* replenishment
SelectOrForce(c, pool, tr) ==
    IF pool = <<>>
    THEN /\ ReturnNone(c, pool)
         /\ gp_trace' = [gp_trace EXCEPT ![c] = tr]
    ELSE IF ValidProxies(pool) # <<>>
    THEN /\ ReturnProxy(c, pool, FirstValid(pool))
         /\ gp_trace' = [gp_trace EXCEPT ![c] = tr]
    ELSE /\ proxies' = pool
         /\ gp_pc' = [gp_pc EXCEPT ![c] = "force_replenish"]
         /\ gp_asked' = [gp_asked EXCEPT ![c] = CountToFetch(pool)]
         /\ gp_trace' = [gp_trace EXCEPT ![c] = Fetched(tr, CountToFetch(pool))]
         /\ proxy_lock' = c
         /\ UNCHANGED gp_result

\* get_proxy is called
GetProxyCall(c) ==
    /\ gp_pc[c] = "idle"
    /\ gp_calls < MaxProxyCalls
    /\ gp_calls' = gp_calls + 1
    /\ IF ~enable_proxy
       THEN /\ gp_result' = [gp_result EXCEPT ![c] =
                                [kind |-> "null", expired_time_ts |-> 0, at |-> clock,
                                 lru |-> TRUE]]
            /\ gp_trace' = [gp_trace EXCEPT ![c] = NewTrace(Len(proxies))]
            /\ UNCHANGED gp_pc
       ELSE /\ gp_pc' = [gp_pc EXCEPT ![c] = "lock"]
            /\ UNCHANGED <<gp_result, gp_trace>>
    /\ UNCHANGED <<clock, proxy_ticks, enable_proxy, proxies, proxy_lock, gp_asked>>

\* `async with self.lock`, _remove_expired_proxies, _replenish_pool_if_needed up to
\* its await, or on to the selection
GetProxyEnter(c) ==
    /\ gp_pc[c] = "lock"
    /\ proxy_lock = NoCaller
    /\ LET pool == RemoveExpired(proxies)
       IN  IF Len(pool) < min_pool_size
           THEN /\ proxies' = pool
                /\ gp_pc' = [gp_pc EXCEPT ![c] = "replenish"]
                /\ gp_asked' = [gp_asked EXCEPT ![c] = CountToFetch(pool)]
                /\ gp_trace' = [gp_trace EXCEPT ![c] =
                                   Fetched(NewTrace(Len(proxies)), CountToFetch(pool))]
                /\ proxy_lock' = c
                /\ UNCHANGED gp_result
           ELSE SelectOrForce(c, pool, NewTrace(Len(proxies)))
    /\ UNCHANGED <<clock, proxy_ticks, enable_proxy, gp_calls>>

\* the provider answers the first replenishment
ReplenishAnswer(c) ==
    /\ gp_pc[c] = "replenish"
    /\ \E new \in ProviderAnswers(gp_asked[c]) :
          SelectOrForce(c, proxies \o new, gp_trace[c])
    /\ UNCHANGED <<clock, proxy_ticks, enable_proxy, gp_calls>>

\* a plausible slip: the pool is emptied before the provider call, and the call
\* that raises leaves it so
ReplenishError_PoolLost(c) ==
    /\ gp_pc[c] = "replenish"
    /\ SelectOrForce(c, <<>>, gp_trace[c])
    /\ UNCHANGED <<clock, proxy_ticks, enable_proxy, gp_calls>>

\* the provider call of the first replenishment raises
ReplenishError(c) ==
    /\ gp_pc[c] = "replenish"
    /\ SelectOrForce(c, proxies, gp_trace[c])
    /\ UNCHANGED <<clock, proxy_ticks, enable_proxy, gp_calls>>

\* lines 168-181 after the forced replenishment: filter again, fall back to all
\* proxies (sorted in place), return the first
SelectAfterForce(c, pool) ==
    IF ValidProxies(pool) # <<>> THEN ReturnProxy(c, pool, FirstValid(pool))
    ELSE ReturnProxy(c, SortProxies(pool), 1)

\* the provider answers the forced replenishment
ForceAnswer(c) ==
    /\ gp_pc[c] = "force_replenish"
    /\ \E new \in ProviderAnswers(gp_asked[c]) : SelectAfterForce(c, proxies \o new)
    /\ UNCHANGED <<clock, proxy_ticks, enable_proxy, gp_calls, gp_trace>>

\* the provider call of the forced replenishment raises
ForceError(c) ==
    /\ gp_pc[c] = "force_replenish"
    /\ SelectAfterForce(c, proxies)
    /\ UNCHANGED <<clock, proxy_ticks, enable_proxy, gp_calls, gp_trace>>

\* instants at which a lease changes its standing
ProxyDeadlines ==
    {proxies[i].expired_time_ts : i \in 1..Len(proxies)} \cup
    {proxies[i].expired_time_ts - proxy_replacement_threshold : i \in 1..Len(proxies)}

\* time passes
TickProxy ==
    /\ proxy_ticks < MaxProxyTicks
    /\ \E d \in ProxyDeadlines \cup {clock + 1} :
          /\ d > clock
          /\ clock' = d
    /\ proxy_ticks' = proxy_ticks + 1
    /\ UNCHANGED <<enable_proxy, proxies, proxy_lock, gp_pc, gp_asked, gp_calls, gp_result,
                   gp_trace>>

ProxyIdle ==
    /\ clock = 1
    /\ proxy_ticks = 0
    /\ enable_proxy = FALSE
    /\ proxies = <<>>
    /\ proxy_lock = NoCaller
    /\ gp_pc = [c \in Callers |-> "idle"]
    /\ gp_asked = [c \in Callers |-> 0]
    /\ gp_calls = 0
    /\ gp_result = [c \in Callers |-> NoResult]
    /\ gp_trace = [c \in Callers |-> NewTrace(0)]

\* ProxyManager.__init__
ProxyStart ==
    /\ clock = 1
    /\ proxy_ticks = 0
    /\ enable_proxy \in BOOLEAN
    /\ proxies = <<>>
    /\ proxy_lock = NoCaller
    /\ gp_pc = [c \in Callers |-> "idle"]
    /\ gp_asked = [c \in Callers |-> 0]
    /\ gp_calls = 0
    /\ gp_result = [c \in Callers |-> NoResult]
    /\ gp_trace = [c \in Callers |-> NewTrace(0)]

-----------------------------------------------------------------------------
(* ProxyManager.initialize_pool and get_proxies_for_concurrent_tasks       *)
(* (src/sdk/proxy_manager.py), called one after the other by               *)
(* one TaskScheduler.schedule_*_task call, each in its own asyncio.run: no  *)
(* other coroutine runs, so the lock is always free when they take it.      *)

\* the small values of count
MaxCount == 2

\* initialize_pool(initial_size=20)
initial_size == 20

\* the values of count: small ones, and one above a full initial pool
Counts == (1..MaxCount) \cup {initial_size + 1}

VARIABLES
    gm_pc,        \* position in initialize_pool / get_proxies_for_concurrent_tasks
    gm_count,     \* count of the get_proxies_for_concurrent_tasks call
    gm_asked,     \* number of leases asked of the provider call awaited
    gm_supplied,  \* every provider call of that call handed back all it was asked
    gm_result     \* what get_proxies_for_concurrent_tasks returned

varsMany == <<gm_pc, gm_count, gm_asked, gm_supplied, gm_result>>

varsGetProxy == <<proxy_lock, gp_pc, gp_asked, gp_calls, gp_result, gp_trace>>

NoList == [kind |-> "none", leases |-> 0, nones |-> 0]

\* schedule_*_task line 63: asyncio.run(self.proxy_manager.initialize_pool())
InitializePoolCall ==
    /\ gm_pc = "idle"
    /\ gm_pc' = IF enable_proxy THEN "init_pool" ELSE "initialized"
    /\ UNCHANGED <<clock, proxy_ticks, enable_proxy, proxies, gm_count, gm_asked,
                   gm_supplied, gm_result>>

\* initialize_pool lines 137-139: the provider answers, the pool is replaced
InitializePoolAnswer ==
    /\ gm_pc = "init_pool"
    /\ \E new \in ProviderAnswers(initial_size) : proxies' = new
    /\ gm_pc' = "initialized"
    /\ UNCHANGED <<clock, proxy_ticks, enable_proxy, gm_count, gm_asked,
                   gm_supplied, gm_result>>

\* initialize_pool lines 140-141: the provider call raises
InitializePoolError ==
    /\ gm_pc = "init_pool"
    /\ gm_pc' = "initialized"
    /\ UNCHANGED <<clock, proxy_ticks, enable_proxy, proxies, gm_count,
                   gm_asked, gm_supplied, gm_result>>

\* indices of the first k elements of cand in the order of
\* sort(key=(last_used, task_count)), which is stable
RECURSIVE FirstSortedIndices(_, _, _)
FirstSortedIndices(pool, cand, k) ==
    IF k = 0 \/ cand = {} THEN {}
    ELSE LET i == CHOOSE i \in cand :
                     \A j \in cand :
                         /\ ~ProxyKeyLess(pool[j], pool[i])
                         /\ j < i => ProxyKeyLess(pool[i], pool[j])
         IN  {i} \cup FirstSortedIndices(pool, cand \ {i}, k - 1)

\* a plausible slip: one lease fewer than asked is taken from the sorted list
SelectedCount_OneShort(count, available) ==
    IF count - 1 < available THEN count - 1 ELSE available

\* line 224: min(count, len(valid_proxies))
SelectedCount(count, available) == IF count < available THEN count ELSE available

\* lines 219-233: sort cand, mark_used the first ones, pad with None, return
ReturnMany(count, pool, cand) ==
    LET k == SelectedCount(count, Cardinality(cand))
        chosen == FirstSortedIndices(pool, cand, k)
    IN  /\ proxies' = [i \in 1..Len(pool) |->
                          IF i \in chosen THEN mark_used(pool[i]) ELSE pool[i]]
        /\ gm_result' = [kind |-> "list", leases |-> k, nones |-> count - k]
        /\ gm_pc' = "returned"
        /\ gm_asked' = 0

\* indices of the proxies that are not about to expire
ValidIndices(pool) ==
    {i \in 1..Len(pool) : time_until_expiry(pool[i]) > proxy_replacement_threshold}

\* lines 205-217 before the forced replenishment
SelectManyOrForce(count, pool) ==
    IF Cardinality(ValidIndices(pool)) < count
    THEN /\ proxies' = pool
         /\ gm_pc' = "force_replenish"
         /\ gm_asked' = count - Cardinality(ValidIndices(pool))
         /\ UNCHANGED gm_result
    ELSE ReturnMany(count, pool, ValidIndices(pool))

\* lines 212-217 after the forced replenishment: `valid_proxies = self.proxies`
\* makes the sort reorder the pool itself
SelectManyAfterForce(count, pool) ==
    IF Cardinality(ValidIndices(pool)) < count
    THEN ReturnMany(count, SortProxies(pool), 1..Len(pool))
    ELSE ReturnMany(count, pool, ValidIndices(pool))

\* get_proxies_for_concurrent_tasks(count), lines 193-203
GetManyCall(count) ==
    /\ gm_pc = "initialized"
    /\ gm_count' = count
    /\ gm_supplied' = TRUE
    /\ IF ~enable_proxy
       THEN /\ gm_result' = [kind |-> "list", leases |-> 0, nones |-> count]
            /\ gm_pc' = "returned"
            /\ UNCHANGED <<proxies, gm_asked>>
       ELSE LET pool == RemoveExpired(proxies)
            IN  IF count - Len(pool) > 0 /\ Len(pool) < min_pool_size
                THEN /\ proxies' = pool
                     /\ gm_pc' = "replenish"
                     /\ gm_asked' = count - Len(pool)
                     /\ UNCHANGED gm_result
                ELSE SelectManyOrForce(count, pool)
    /\ UNCHANGED <<clock, proxy_ticks, enable_proxy>>

\* _replenish_pool_if_needed(needed): the provider answers
ManyReplenishAnswer ==
    /\ gm_pc = "replenish"
    /\ \E new \in ProviderAnswers(gm_asked) :
          /\ gm_supplied' = (gm_supplied /\ Len(new) = gm_asked)
          /\ SelectManyOrForce(gm_count, proxies \o new)
    /\ UNCHANGED <<clock, proxy_ticks, enable_proxy, gm_count>>

\* _replenish_pool_if_needed(needed): the provider call raises
ManyReplenishError ==
    /\ gm_pc = "replenish"
    /\ gm_supplied' = FALSE
    /\ SelectManyOrForce(gm_count, proxies)
    /\ UNCHANGED <<clock, proxy_ticks, enable_proxy, gm_count>>

\* _replenish_pool_if_needed(count - len(valid_proxies), force=True) answered
ManyForceAnswer ==
    /\ gm_pc = "force_replenish"
    /\ \E new \in ProviderAnswers(gm_asked) :
          /\ gm_supplied' = (gm_supplied /\ Len(new) = gm_asked)
          /\ SelectManyAfterForce(gm_count, proxies \o new)
    /\ UNCHANGED <<clock, proxy_ticks, enable_proxy, gm_count>>

\* the provider call of the forced replenishment raises
ManyForceError ==
    /\ gm_pc = "force_replenish"
    /\ gm_supplied' = FALSE
    /\ SelectManyAfterForce(gm_count, proxies)
    /\ UNCHANGED <<clock, proxy_ticks, enable_proxy, gm_count>>

ManyIdle ==
    /\ gm_pc = "idle"
    /\ gm_count = 0
    /\ gm_asked = 0
    /\ gm_supplied = TRUE
    /\ gm_result = NoList

ManyStart == ManyIdle

-----------------------------------------------------------------------------
(* WeiboCrawler.batch_get_notes_comments / get_note_comments                *)
(* (src/media_platform/weibo/core.py)                                       *)

\* notes of one batch_get_notes_comments call
NumNotes == 6

\* src/media_platform/weibo/core.py:319 (if self.block_count >= 6)
BlockCeiling == 6
\* src/config/base_config.py:126
MAX_CONCURRENCY_NUM == 5
\* src/media_platform/weibo/core.py:290 (if self.timeout_count >= 15)
TimeoutLimit == 15
\* src/media_platform/weibo/core.py:284 (if self.success_after_timeout >= 3)
SuccessResetCount == 3
\* success_after_timeout before the attribute is set
Unset == -1

Notes == 1..NumNotes

VARIABLES
    block_count,             \* WeiboCrawler.block_count (0 while not set)
    timeout_count,           \* WeiboCrawler.timeout_count (0 while not set)
    success_after_timeout,   \* WeiboCrawler.success_after_timeout, or Unset
    long_breaks,             \* times the 300 s break was taken
    exited,                  \* sys.exit(1) was called
    consecutive_timeouts,    \* network errors seen since the last other outcome
    note_pc                  \* get_note_comments task -> position

varsCrawler == <<block_count, timeout_count, success_after_timeout, long_breaks, exited,
                 consecutive_timeouts, note_pc>>

\* a plausible slip: the run is not ended on blocks
ExitOnBlock_Never(count) == FALSE

\* line 319: the test that ends the run after a block
ExitOnBlock(count) == count >= BlockCeiling

\* tasks inside `async with semaphore`
InNoteSemaphore == {n \in Notes : note_pc[n] = "requesting"}

\* the task enters the semaphore and sends the request of get_note_all_comments
NoteStart(n) ==
    /\ ~exited
    /\ note_pc[n] = "queued"
    /\ \A m \in Notes : m < n => note_pc[m] # "queued"
    /\ Cardinality(InNoteSemaphore) < MAX_CONCURRENCY_NUM
    /\ note_pc' = [note_pc EXCEPT ![n] = "requesting"]
    /\ UNCHANGED <<block_count, timeout_count, success_after_timeout, long_breaks, exited,
                   consecutive_timeouts>>

\* get_note_all_comments returns
NoteOk(n) ==
    /\ ~exited
    /\ note_pc[n] = "requesting"
    /\ note_pc' = [note_pc EXCEPT ![n] = "done"]
    /\ consecutive_timeouts' = 0
    /\ UNCHANGED <<block_count, timeout_count, success_after_timeout, long_breaks, exited>>

\* DataFetchError: time.sleep(5)
NoteDataFetchError(n) ==
    /\ ~exited
    /\ note_pc[n] = "requesting"
    /\ note_pc' = [note_pc EXCEPT ![n] = "done"]
    /\ consecutive_timeouts' = 0
    /\ UNCHANGED <<block_count, timeout_count, success_after_timeout, long_breaks, exited>>

\* ReadTimeout, ConnectTimeout, ConnectError
NoteTimeout(n) ==
    /\ ~exited
    /\ note_pc[n] = "requesting"
    /\ LET count == timeout_count + 1
           after == IF success_after_timeout = Unset THEN 0
                    ELSE success_after_timeout + 1
           kept == IF success_after_timeout # Unset /\ after >= SuccessResetCount
                   THEN 0 ELSE count
       IN  /\ success_after_timeout' = after
           /\ IF kept >= TimeoutLimit
              THEN /\ timeout_count' = kept \div 2
                   /\ long_breaks' = long_breaks + 1
              ELSE /\ timeout_count' = kept
                   /\ UNCHANGED long_breaks
    /\ note_pc' = [note_pc EXCEPT ![n] = "done"]
    /\ consecutive_timeouts' = consecutive_timeouts + 1
    /\ UNCHANGED <<block_count, exited>>

\* any other exception whose text has a block indicator
NoteBlock(n) ==
    /\ ~exited
    /\ note_pc[n] = "requesting"
    /\ block_count' = block_count + 1
    /\ IF ExitOnBlock(block_count + 1)
       THEN \* SystemExit leaves the event loop; the other tasks never run again
            /\ exited' = TRUE
            /\ note_pc' = [m \in Notes |->
                              IF m = n THEN "exit"
                              ELSE IF note_pc[m] = "done" THEN "done" ELSE "cancelled"]
       ELSE /\ note_pc' = [note_pc EXCEPT ![n] = "done"]
            /\ UNCHANGED exited
    /\ consecutive_timeouts' = 0
    /\ UNCHANGED <<timeout_count, success_after_timeout, long_breaks>>

\* any other exception: time.sleep(2)
NoteOtherError(n) ==
    /\ ~exited
    /\ note_pc[n] = "requesting"
    /\ note_pc' = [note_pc EXCEPT ![n] = "done"]
    /\ consecutive_timeouts' = 0
    /\ UNCHANGED <<block_count, timeout_count, success_after_timeout, long_breaks, exited>>

CrawlerIdle ==
    /\ block_count = 0
    /\ timeout_count = 0
    /\ success_after_timeout = Unset
    /\ long_breaks = 0
    /\ exited = FALSE
    /\ consecutive_timeouts = 0
    /\ note_pc = [n \in Notes |-> "queued"]

\* a batch_get_notes_comments call of a run; earlier calls of the run have counted
\* their blocks
CrawlerStart ==
    /\ block_count \in 0..(BlockCeiling - 1)
    /\ timeout_count = 0
    /\ success_after_timeout = Unset
    /\ long_breaks = 0
    /\ exited = FALSE
    /\ consecutive_timeouts = 0
    /\ note_pc = [n \in Notes |-> "queued"]

-----------------------------------------------------------------------------
(* MultiAccountWeiboScraper.search_by_keyword and its nested                *)
(* batch_get_comments (src/multiaccountweiboscraper.py)                     *)

\* pages of one search_by_keyword call (max_pages)
NumPages == 2
\* note ids a result page can hold
NotesPerPage == 2
\* largest concurrency the caller passes to search_by_keyword
MaxSearchConcurrency == 2

\* src/multiaccountweiboscraper.py:998 (batch_get_comments(..., concurrency=2))
NestedConcurrency == 2

Pages == 1..NumPages
PageNotes == 1..NotesPerPage

VARIABLES
    search_concurrency,  \* the concurrency argument of search_by_keyword
    multi_active,        \* some account of MultiAccountWeiboScraper is logged in
    page_pc,             \* fetch_page task -> position
    page_found,          \* fetch_page task -> length of note_id_list
    nc_pc                \* page -> fetch_comments task of the nested call -> position

varsSearch == <<search_concurrency, multi_active, page_pc, page_found, nc_pc>>

\* fetch_page tasks inside `async with semaphore` (line 968)
InPageSemaphore == {p \in Pages : page_pc[p] \in {"request", "comments", "sleep"}}

\* fetch_comments tasks of page p inside `async with semaphore` (line 1110)
InCommentSemaphore(p) == {n \in PageNotes : nc_pc[p][n] \in {"request", "sleep"}}

\* lines 968-979: enter the semaphore, rotate_account, send the search request;
\* rotate_account raises when no account is logged in (926-928)
PageEnter(p) ==
    /\ page_pc[p] = "queued"
    /\ \A q \in Pages : q < p => page_pc[q] # "queued"
    /\ Cardinality(InPageSemaphore) < search_concurrency
    /\ page_pc' = [page_pc EXCEPT ![p] = IF multi_active THEN "request" ELSE "sleep"]
    /\ UNCHANGED <<search_concurrency, multi_active, page_found, nc_pc>>

\* lines 979-998: the page arrives with k notes; batch_get_comments returns at
\* once for an empty list (1100-1101), else creates one task per note (1136)
PageSearchOk(p) ==
    /\ page_pc[p] = "request"
    /\ \E k \in 0..NotesPerPage :
          /\ page_found' = [page_found EXCEPT ![p] = k]
          /\ IF k = 0
             THEN /\ page_pc' = [page_pc EXCEPT ![p] = "sleep"]
                  /\ UNCHANGED nc_pc
             ELSE /\ page_pc' = [page_pc EXCEPT ![p] = "comments"]
                  /\ nc_pc' = [nc_pc EXCEPT ![p] =
                                  [n \in PageNotes |-> IF n <= k THEN "queued" ELSE "none"]]
    /\ UNCHANGED <<search_concurrency, multi_active>>

\* lines 1001-1006: rotate_proxy or the search request raises
PageSearchFail(p) ==
    /\ page_pc[p] = "request"
    /\ page_pc' = [page_pc EXCEPT ![p] = "sleep"]
    /\ UNCHANGED <<search_concurrency, multi_active, page_found, nc_pc>>

\* lines 1110-1121: enter the semaphore of the nested call, rotate_account, send
\* the comments request
CommentEnter(p, n) ==
    /\ page_pc[p] = "comments"
    /\ nc_pc[p][n] = "queued"
    /\ \A m \in PageNotes : m < n => nc_pc[p][m] # "queued"
    /\ Cardinality(InCommentSemaphore(p)) < NestedConcurrency
    /\ nc_pc' = [nc_pc EXCEPT ![p][n] = "request"]
    /\ UNCHANGED <<search_concurrency, multi_active, page_pc, page_found>>

\* lines 1121-1133: get_note_all_comments returns
CommentOk(p, n) ==
    /\ nc_pc[p][n] = "request"
    /\ nc_pc' = [nc_pc EXCEPT ![p][n] = "sleep"]
    /\ UNCHANGED <<search_concurrency, multi_active, page_pc, page_found>>

\* lines 1128-1133: rotate_proxy or get_note_all_comments raises
CommentFail(p, n) ==
    /\ nc_pc[p][n] = "request"
    /\ nc_pc' = [nc_pc EXCEPT ![p][n] = "sleep"]
    /\ UNCHANGED <<search_concurrency, multi_active, page_pc, page_found>>

\* line 1133: the sleep of the finally clause ends, the semaphore is released
CommentSleepDone(p, n) ==
    /\ nc_pc[p][n] = "sleep"
    /\ nc_pc' = [nc_pc EXCEPT ![p][n] = "done"]
    /\ UNCHANGED <<search_concurrency, multi_active, page_pc, page_found>>

\* lines 1137-1143, 1000-1006: gather of the nested call returns
CommentsGathered(p) ==
    /\ page_pc[p] = "comments"
    /\ \A n \in PageNotes : nc_pc[p][n] \in {"none", "done"}
    /\ page_pc' = [page_pc EXCEPT ![p] = "sleep"]
    /\ UNCHANGED <<search_concurrency, multi_active, page_found, nc_pc>>

\* line 1006: the sleep of the finally clause ends, the semaphore is released
PageSleepDone(p) ==
    /\ page_pc[p] = "sleep"
    /\ page_pc' = [page_pc EXCEPT ![p] = "done"]
    /\ UNCHANGED <<search_concurrency, multi_active, page_found, nc_pc>>

\* requests of the search that are sent and not yet answered
SearchInFlight ==
    Cardinality({p \in Pages : page_pc[p] = "request"})
    + Cardinality({pn \in Pages \X PageNotes : nc_pc[pn[1]][pn[2]] = "request"})

SearchIdle ==
    /\ search_concurrency = 1
    /\ multi_active = FALSE
    /\ page_pc = [p \in Pages |-> "queued"]
    /\ page_found = [p \in Pages |-> 0]
    /\ nc_pc = [p \in Pages |-> [n \in PageNotes |-> "none"]]

\* search_by_keyword(keyword, max_pages, concurrency) is called
SearchStart ==
    /\ search_concurrency \in 1..MaxSearchConcurrency
    /\ multi_active \in BOOLEAN
    /\ page_pc = [p \in Pages |-> "queued"]
    /\ page_found = [p \in Pages |-> 0]
    /\ nc_pc = [p \in Pages |-> [n \in PageNotes |-> "none"]]

-----------------------------------------------------------------------------
(* TaskScheduler.schedule_search_task and _execute_tasks                    *)
(* (src/sdk/task_scheduler.py)                                              *)

\* longest keyword list passed to schedule_search_task
MaxKeywords == 4
\* largest concurrent_tasks passed to schedule_search_task
MaxConcurrentTasks == 3

\* most accounts registered for the platform
MaxPlatformAccounts == 2

\* src/sdk/task_scheduler.py:46 (ThreadPoolExecutor(max_workers=20))
ExecutorWorkers == 20

TaskSlots == 1..MaxKeywords

VARIABLES
    keywords,          \* the keywords argument, a sequence
    platform_accounts, \* number of accounts account_manager holds for the platform
    task_account,      \* Task.account of each Task of `tasks`: 1..platform_accounts, 0 for None
    concurrent_tasks,  \* the concurrent_tasks argument
    sched_pc,          \* position of schedule_search_task
    sched_tasks,       \* the local list `tasks`: the keyword chunk of each Task
    futures,           \* number of tasks submitted to the executor
    worker_pc,         \* submitted task -> position of _execute_single_task
    collected          \* number of futures whose result() has returned

varsSched == <<keywords, concurrent_tasks, platform_accounts, task_account, sched_pc, sched_tasks, futures, worker_pc,
               collected>>

MaxOf(a, b) == IF a >= b THEN a ELSE b

MinOf(a, b) == IF a <= b THEN a ELSE b

\* line 67: chunk_size = max(1, len(keywords) // concurrent_tasks)
ChunkSize(kws, ct) == MaxOf(1, Len(kws) \div ct)

\* line 68: [keywords[i:i+chunk_size] for i in range(0, len(keywords), chunk_size)]
KeywordChunks(kws, chunk_size) ==
    LET count == (Len(kws) + chunk_size - 1) \div chunk_size
    IN  [k \in 1..count |->
            SubSeq(kws, (k - 1) * chunk_size + 1, MinOf(k * chunk_size, Len(kws)))]

\* the lists account_manager.get_accounts_for_concurrent_tasks(platform, count)
\* can return (src/sdk/account_manager.py, lines 73-107): none without an
\* account of the platform; else the first min(count, len) accounts of the
\* sorted list, then random ones up to count
ConcurrentAccounts(n, count) ==
    IF n = 0 THEN {<<>>}
    ELSE {s \in [1..count -> 1..n] :
            \A i, j \in 1..MinOf(count, n) : i # j => s[i] # s[j]}

\* line 76: account = accounts[i % len(accounts)] if accounts else None
TaskAccount(accts, i) ==
    IF Len(accts) > 0 THEN accts[((i - 1) % Len(accts)) + 1] ELSE 0

\* lines 63-83: the keyword chunks become one Task each, with its account
ScheduleSearch ==
    /\ sched_pc = "called"
    /\ LET chunks == KeywordChunks(keywords, ChunkSize(keywords, concurrent_tasks))
       IN  /\ sched_tasks' = chunks
           /\ \E accts \in ConcurrentAccounts(platform_accounts, Len(chunks)) :
                 task_account' = [i \in 1..Len(chunks) |-> TaskAccount(accts, i)]
    /\ sched_pc' = "submitting"
    /\ UNCHANGED <<keywords, concurrent_tasks, platform_accounts, futures, worker_pc, collected>>

\* lines 179-182: executor.submit of the next task
SubmitTask ==
    /\ sched_pc = "submitting"
    /\ futures < Len(sched_tasks)
    /\ futures' = futures + 1
    /\ worker_pc' = [worker_pc EXCEPT ![futures + 1] = "pending"]
    /\ UNCHANGED <<keywords, concurrent_tasks, platform_accounts, task_account, sched_pc, sched_tasks, collected>>

\* line 185: every task is submitted, the results are collected
SubmitDone ==
    /\ sched_pc = "submitting"
    /\ futures = Len(sched_tasks)
    /\ sched_pc' = "collecting"
    /\ UNCHANGED <<keywords, concurrent_tasks, platform_accounts, task_account, sched_tasks, futures, worker_pc, collected>>

\* a thread of the executor takes the task
WorkerStart(i) ==
    /\ worker_pc[i] = "pending"
    /\ Cardinality({j \in TaskSlots : worker_pc[j] = "running"}) < ExecutorWorkers
    /\ worker_pc' = [worker_pc EXCEPT ![i] = "running"]
    /\ UNCHANGED <<keywords, concurrent_tasks, platform_accounts, task_account, sched_pc, sched_tasks, futures, collected>>

\* lines 206-224: platform_handler.search returns its results
WorkerOk(i) ==
    /\ worker_pc[i] = "running"
    /\ worker_pc' = [worker_pc EXCEPT ![i] = "results"]
    /\ UNCHANGED <<keywords, concurrent_tasks, platform_accounts, task_account, sched_pc, sched_tasks, futures, collected>>

\* lines 244-246: an exception is printed and kept in task.error, None is returned
WorkerError(i) ==
    /\ worker_pc[i] = "running"
    /\ worker_pc' = [worker_pc EXCEPT ![i] = "error"]
    /\ UNCHANGED <<keywords, concurrent_tasks, platform_accounts, task_account, sched_pc, sched_tasks, futures, collected>>

\* lines 186-192: future.result() of the next future returns
CollectResult ==
    /\ sched_pc = "collecting"
    /\ collected < futures
    /\ worker_pc[collected + 1] \in {"results", "error"}
    /\ collected' = collected + 1
    /\ UNCHANGED <<keywords, concurrent_tasks, platform_accounts, task_account, sched_pc, sched_tasks, futures, worker_pc>>

\* line 194, 86-87: the combined results are returned
ScheduleReturn ==
    /\ sched_pc = "collecting"
    /\ collected = futures
    /\ sched_pc' = "returned"
    /\ UNCHANGED <<keywords, concurrent_tasks, platform_accounts, task_account, sched_tasks, futures, worker_pc, collected>>

SchedIdle ==
    /\ keywords = <<>>
    /\ platform_accounts = 0
    /\ task_account = <<>>
    /\ concurrent_tasks = 1
    /\ sched_pc = "idle"
    /\ sched_tasks = <<>>
    /\ futures = 0
    /\ worker_pc = [i \in TaskSlots |-> "none"]
    /\ collected = 0

\* schedule_search_task(platform, keywords, max_results, concurrent_tasks) is called
SchedStart ==
    /\ keywords \in {[i \in 1..n |-> i] : n \in 0..MaxKeywords}
    /\ platform_accounts \in 0..MaxPlatformAccounts
    /\ task_account = <<>>
    /\ concurrent_tasks \in 1..MaxConcurrentTasks
    /\ sched_pc = "called"
    /\ sched_tasks = <<>>
    /\ futures = 0
    /\ worker_pc = [i \in TaskSlots |-> "none"]
    /\ collected = 0

-----------------------------------------------------------------------------
(* EnhancedWeiboScraper.scrape_comments_for_existing_content and the body   *)
(* of batch_get_comments (src/multiaccountweiboscraper.py)                  *)

\* posts of the content file
NumContent == 3

ContentIds == 1..NumContent

VARIABLES
    bgc_pc,         \* position of the caller of batch_get_comments
    bgc_entry,      \* "scrape": called by scrape_comments_for_existing_content,
                    \* "direct": batch_get_comments called by the user
    bgc_post_ids,   \* the post_ids argument of batch_get_comments
    bgc_processed,  \* scraper.processed_comments at the call
    bgc_tasks,      \* posts for which fetch_comments(post_id) was called
    bgc_result      \* what batch_get_comments returned: "unset", "list" or "None"

varsBatch == <<bgc_pc, bgc_entry, bgc_post_ids, bgc_processed, bgc_tasks, bgc_result>>

\* lists of distinct content ids
ContentLists ==
    {l \in UNION {[1..n -> ContentIds] : n \in 0..NumContent} :
        \A i, j \in DOMAIN l : i # j => l[i] # l[j]}

\* lines 547-561: the filtered ids are handed to batch_get_comments, unless there
\* is none
ScrapeExisting ==
    /\ bgc_pc = "filter"
    /\ bgc_pc' = IF bgc_post_ids = <<>> THEN "returned" ELSE "call"
    /\ UNCHANGED <<bgc_entry, bgc_post_ids, bgc_processed, bgc_tasks, bgc_result>>

\* lines 570-705: an empty list is answered with []; else the semaphore is made
\* and fetch_comments is defined, and the body ends there: no fetch_comments
\* coroutine is created or awaited, and the call returns None
BatchGetComments ==
    /\ bgc_pc = "call"
    /\ bgc_result' = IF bgc_post_ids = <<>> THEN "list" ELSE "None"
    /\ bgc_pc' = IF bgc_entry = "scrape" THEN "summary" ELSE "returned"
    /\ UNCHANGED <<bgc_entry, bgc_post_ids, bgc_processed, bgc_tasks>>

\* line 564: self.stats.print_summary()
PrintSummary ==
    /\ bgc_pc = "summary"
    /\ bgc_pc' = "returned"
    /\ UNCHANGED <<bgc_entry, bgc_post_ids, bgc_processed, bgc_tasks, bgc_result>>

BatchIdle ==
    /\ bgc_pc = "idle"
    /\ bgc_entry = "direct"
    /\ bgc_post_ids = <<>>
    /\ bgc_processed = {}
    /\ bgc_tasks = {}
    /\ bgc_result = "unset"

\* scrape_comments_for_existing_content has read the content file, or the user
\* calls batch_get_comments(post_ids)
BatchStart ==
    /\ bgc_entry \in {"scrape", "direct"}
    /\ bgc_pc = IF bgc_entry = "scrape" THEN "filter" ELSE "call"
    /\ bgc_post_ids \in ContentLists
    /\ bgc_processed \in SUBSET ContentIds
    /\ bgc_tasks = {}
    /\ bgc_result = "unset"

-----------------------------------------------------------------------------
(* AccountManager (src/sdk/account_manager.py): synchronous methods, each   *)
(* call runs to its end before the next starts                              *)

\* accounts added to the platform
MaxSdkAccounts == 3
\* get_available_account / get_accounts_for_concurrent_tasks calls made
MaxSdkCalls == 4
\* largest count of get_accounts_for_concurrent_tasks
MaxSdkCount == 4
\* times time.time() moves on between two calls
MaxSdkTicks == 2

VARIABLES
    sdk_accounts,     \* AccountManager.accounts[platform]: the list, in its order
    sdk_now,          \* time.time()
    sdk_ticks,        \* times the clock moved on
    sdk_calls,        \* calls made so far
    sdk_returned,     \* accounts returned by the get_available_account calls made
                      \* since the last other operation, oldest first
    sdk_many          \* the last get_accounts_for_concurrent_tasks call

varsSdk == <<sdk_accounts, sdk_now, sdk_ticks, sdk_calls, sdk_returned, sdk_many>>

\* Account(platform, username, password); name stands for the username
NewSdkAccount(name) == [name |-> name, last_used |-> 0, task_count |-> 0]

\* a plausible slip: the use is timed but not counted
AccountMarkUsed_NotCounted(acc) == [acc EXCEPT !.last_used = sdk_now]

\* Account.mark_used
AccountMarkUsed(acc) ==
    [acc EXCEPT !.last_used = sdk_now, !.task_count = acc.task_count + 1]

\* sort key (last_used, task_count)
SdkKeyLess(p, q) ==
    \/ p.last_used < q.last_used
    \/ p.last_used = q.last_used /\ p.task_count < q.task_count

\* platform_accounts.sort(key=...): stable, in place
RECURSIVE SortAccounts(_)
SortAccounts(list) ==
    IF list = <<>> THEN <<>>
    ELSE LET i == CHOOSE k \in 1..Len(list) :
                     /\ \A j \in 1..Len(list) : ~SdkKeyLess(list[j], list[k])
                     /\ \A j \in 1..(k - 1) : SdkKeyLess(list[k], list[j])
             rest == [j \in 1..(Len(list) - 1) |-> IF j < i THEN list[j] ELSE list[j + 1]]
         IN  <<list[i]>> \o SortAccounts(rest)

\* mark_used on the accounts at the positions of picks, one after the other
RECURSIVE MarkAll(_, _)
MarkAll(list, picks) ==
    IF picks = <<>> THEN list
    ELSE MarkAll([list EXCEPT ![Head(picks)] = AccountMarkUsed(list[Head(picks)])],
                 Tail(picks))

NoManyCall == [called |-> FALSE, count |-> 0, before |-> <<>>, result |-> <<>>,
               after |-> <<>>]

\* add_account(platform, username, password)
AddAccount ==
    /\ Len(sdk_accounts) < MaxSdkAccounts
    /\ sdk_accounts' = Append(sdk_accounts, NewSdkAccount(Len(sdk_accounts) + 1))
    /\ sdk_returned' = <<>>
    /\ UNCHANGED <<sdk_now, sdk_ticks, sdk_calls, sdk_many>>

\* get_available_account(platform)
GetAvailableAccount ==
    /\ sdk_calls < MaxSdkCalls
    /\ sdk_calls' = sdk_calls + 1
    /\ IF sdk_accounts = <<>>
       THEN UNCHANGED <<sdk_accounts, sdk_returned>>
       ELSE LET sorted == SortAccounts(sdk_accounts)
            IN  /\ sdk_accounts' = [sorted EXCEPT ![1] = AccountMarkUsed(sorted[1])]
                /\ sdk_returned' = Append(sdk_returned, sorted[1].name)
    /\ UNCHANGED <<sdk_now, sdk_ticks, sdk_many>>

\* get_accounts_for_concurrent_tasks(platform, count); extra holds the positions
\* random.choice picks when count exceeds the number of accounts
GetAccountsForConcurrentTasks(count) ==
    /\ sdk_calls < MaxSdkCalls
    /\ sdk_calls' = sdk_calls + 1
    /\ sdk_returned' = <<>>
    /\ IF sdk_accounts = <<>>
       THEN /\ sdk_many' = [called |-> TRUE, count |-> count, before |-> <<>>,
                            result |-> <<>>, after |-> <<>>]
            /\ UNCHANGED sdk_accounts
       ELSE LET sorted == SortAccounts(sdk_accounts)
                n == Len(sorted)
                first == IF count < n THEN count ELSE n
            IN  \E extra \in [1..(count - first) -> 1..n] :
                   LET picks == [i \in 1..first |-> i] \o extra
                       marked == MarkAll(sorted, picks)
                   IN  /\ sdk_accounts' = marked
                       /\ sdk_many' = [called |-> TRUE, count |-> count,
                                       before |-> sorted,
                                       result |-> [i \in 1..Len(picks) |-> sorted[picks[i]].name],
                                       after |-> marked]
    /\ UNCHANGED <<sdk_now, sdk_ticks>>

\* time.time() returns a larger value at the next call
SdkTick ==
    /\ sdk_ticks < MaxSdkTicks
    /\ sdk_ticks' = sdk_ticks + 1
    /\ sdk_now' = sdk_now + 1
    /\ UNCHANGED <<sdk_accounts, sdk_calls, sdk_returned, sdk_many>>

\* AccountManager()
SdkIdle ==
    /\ sdk_accounts = <<>>
    /\ sdk_now = 1
    /\ sdk_ticks = 0
    /\ sdk_calls = 0
    /\ sdk_returned = <<>>
    /\ sdk_many = NoManyCall

SdkStart == SdkIdle

-----------------------------------------------------------------------------
(* The delay between requests: process_batch with _calculate_delay         *)
(* (src/comment.py) and fetch_comments of                                  *)
(* MultiAccountWeiboScraper.batch_get_comments                             *)
(* (src/multiaccountweiboscraper.py), one worker and its posts in turn.    *)
(* Delays are in tenths of a second.                                       *)

\* posts one worker goes through
NumPaceUnits == 2

VARIABLES
    pace_fn,          \* the function that runs: "process_batch" or "fetch_comments"
    pace_pc,          \* its position for the current post
    pace_unit,        \* index of the current post
    pace_min_delay,   \* WeiboCommentScraper.min_delay
    pace_max_delay,   \* WeiboCommentScraper.max_delay
    pace_delay,       \* the latest argument of asyncio.sleep
    pace_slept        \* a delay was waited for the current post

varsPace == <<pace_fn, pace_pc, pace_unit, pace_min_delay, pace_max_delay, pace_delay,
              pace_slept>>

\* random.uniform(lo, hi): the two ends and the middle of the interval
UniformPoints(lo, hi) == {lo, (lo + hi) \div 2, hi}

\* _calculate_delay, lines 419-427: the values it can return
calculate_delay ==
    {(delay * factor) \div 10 :
        delay \in UniformPoints(pace_min_delay, (pace_min_delay * 3) \div 2),
        factor \in JitterFactors}

\* process_batch, lines 174-176: the delay is computed and the sleep begins
PaceSleep ==
    /\ pace_fn = "process_batch"
    /\ pace_pc = "top"
    /\ \E d \in calculate_delay : pace_delay' = d
    /\ pace_slept' = TRUE
    /\ pace_pc' = "sleeping"
    /\ UNCHANGED <<pace_fn, pace_unit, pace_min_delay, pace_max_delay>>

\* process_batch, lines 178-188: the sleep is over; rotate_account, then the
\* request of _fetch_comments_with_retry goes out
PaceRequest ==
    /\ pace_fn = "process_batch"
    /\ pace_pc = "sleeping"
    /\ pace_pc' = "request"
    /\ UNCHANGED <<pace_fn, pace_unit, pace_min_delay, pace_max_delay, pace_delay,
                   pace_slept>>

\* fetch_comments, lines 1111-1125: rotate_account, then the request goes out
MultiRequest ==
    /\ pace_fn = "fetch_comments"
    /\ pace_pc = "top"
    /\ pace_pc' = "request"
    /\ UNCHANGED <<pace_fn, pace_unit, pace_min_delay, pace_max_delay, pace_delay,
                   pace_slept>>

\* fetch_comments, lines 1126-1133: the request returned or raised; `finally`
\* sleeps random.uniform(1, 3)
MultiFinally ==
    /\ pace_fn = "fetch_comments"
    /\ pace_pc = "request"
    /\ \E d \in UniformPoints(10, 30) : pace_delay' = d
    /\ pace_slept' = TRUE
    /\ pace_pc' = "sleeping"
    /\ UNCHANGED <<pace_fn, pace_unit, pace_min_delay, pace_max_delay>>

\* the worker is through with its post (the request of process_batch returned,
\* the sleep of fetch_comments is over) and goes on to the next one
PaceNext ==
    /\ \/ pace_fn = "process_batch" /\ pace_pc = "request"
       \/ pace_fn = "fetch_comments" /\ pace_pc = "sleeping"
    /\ pace_slept' = FALSE
    /\ IF pace_unit < NumPaceUnits
       THEN /\ pace_unit' = pace_unit + 1
            /\ pace_pc' = "top"
       ELSE /\ pace_pc' = "done"
            /\ UNCHANGED pace_unit
    /\ UNCHANGED <<pace_fn, pace_min_delay, pace_max_delay, pace_delay>>

\* the delays of WeiboCommentScraper: as set by __init__ (lines 25-26), or as
\* scaled by a round of retry_failed_posts (lines 110-111)
PaceSettings ==
    {<<InitMinDelay, InitMaxDelay>>} \cup
    {<<ScaleDelay(InitMinDelay, r), ScaleDelay(InitMaxDelay, r)>> :
        r \in 0..(RetryFailedMaxRetries - 1)}

PaceIdle ==
    /\ pace_fn = "none"
    /\ pace_pc = "done"
    /\ pace_unit = 1
    /\ pace_min_delay = InitMinDelay
    /\ pace_max_delay = InitMaxDelay
    /\ pace_delay = 0
    /\ pace_slept = FALSE

PaceStart ==
    /\ pace_fn \in {"process_batch", "fetch_comments"}
    /\ pace_pc = "top"
    /\ pace_unit = 1
    /\ \E s \in PaceSettings :
          /\ pace_min_delay = s[1]
          /\ pace_max_delay = s[2]
    /\ pace_delay = 0
    /\ pace_slept = FALSE

-----------------------------------------------------------------------------
(* EnhancedWeiboScraper.rotate_proxy (src/multiaccountweiboscraper.py): one *)
(* call, cut at its awaits                                                  *)

\* proxies initialize() can have loaded from the proxy file (line 241)
MaxSavedProxies == 1
\* src/multiaccountweiboscraper.py:434
max_attempts == 3

VARIABLES
    rp_pool,          \* self.ip_proxy_pool is set
    rp_pc,            \* position of rotate_proxy
    rp_attempt,       \* rotate_proxy: loop variable `attempt`
    rp_outcomes,      \* how the attempts made so far ended, in order
    rp_result,        \* what rotate_proxy returned: "none" (not yet), "proxy", "null"
    active_proxies    \* len(self.active_proxies)

varsRotate == <<rp_pool, rp_pc, rp_attempt, rp_outcomes, rp_result, active_proxies>>

\* lines 429-437: without a pool (None, None) is returned at once; with one the
\* first attempt awaits get_proxy
RotateProxyCall ==
    /\ rp_pc = "called"
    /\ IF rp_pool
       THEN /\ rp_pc' = "acquire"
            /\ UNCHANGED rp_result
       ELSE /\ rp_pc' = "returned"
            /\ rp_result' = "null"
    /\ UNCHANGED <<rp_pool, rp_attempt, rp_outcomes, active_proxies>>

\* a plausible slip: one more round than max_attempts
MoreAttempts_OneMore(attempt) == attempt + 1 <= max_attempts

\* line 435: `for attempt in range(max_attempts)` has a next round
MoreAttempts(attempt) == attempt + 1 < max_attempts

\* lines 435-437 and 461-462: the next round awaits get_proxy, or the loop is
\* over and (None, None) is returned
NextAttempt ==
    IF MoreAttempts(rp_attempt)
    THEN /\ rp_attempt' = rp_attempt + 1
         /\ rp_pc' = "acquire"
         /\ UNCHANGED rp_result
    ELSE /\ rp_pc' = "returned"
         /\ rp_result' = "null"
         /\ UNCHANGED rp_attempt

\* lines 437-442: get_proxy returned a proxy; the test request is sent
ProxyAcquired ==
    /\ rp_pc = "acquire"
    /\ rp_pc' = "test"
    /\ UNCHANGED <<rp_pool, rp_attempt, rp_outcomes, rp_result, active_proxies>>

\* lines 443-456: the test answered 200; the proxy is recorded and returned
ProxyValidated ==
    /\ rp_pc = "test"
    /\ rp_outcomes' = Append(rp_outcomes, "ok")
    /\ active_proxies' = active_proxies + 1
    /\ rp_pc' = "returned"
    /\ rp_result' = "proxy"
    /\ UNCHANGED <<rp_pool, rp_attempt>>

\* line 443: the test answered with another status; the round ends without a
\* sleep and the loop goes on
ProxyRejected ==
    /\ rp_pc = "test"
    /\ rp_outcomes' = Append(rp_outcomes, "status")
    /\ NextAttempt
    /\ UNCHANGED <<rp_pool, active_proxies>>

\* lines 457-459: get_proxy or the test request raised (a timeout included);
\* the handler logs and sleeps one second
ProxyAttemptError ==
    /\ rp_pc \in {"acquire", "test"}
    /\ rp_outcomes' = Append(rp_outcomes, IF rp_pc = "acquire" THEN "no_proxy" ELSE "error")
    /\ rp_pc' = "sleep"
    /\ UNCHANGED <<rp_pool, rp_attempt, rp_result, active_proxies>>

\* line 459: the sleep of the handler is over
ProxySleepDone ==
    /\ rp_pc = "sleep"
    /\ NextAttempt
    /\ UNCHANGED <<rp_pool, rp_outcomes, active_proxies>>

RotateIdle ==
    /\ rp_pool = FALSE
    /\ rp_pc = "returned"
    /\ rp_attempt = 0
    /\ rp_outcomes = <<>>
    /\ rp_result = "none"
    /\ active_proxies = 0

\* rotate_proxy is called on an initialized scraper
RotateStart ==
    /\ rp_pool \in BOOLEAN
    /\ rp_pc = "called"
    /\ rp_attempt = 0
    /\ rp_outcomes = <<>>
    /\ rp_result = "none"
    /\ active_proxies \in 0..MaxSavedProxies

-----------------------------------------------------------------------------
(* The snapshots written during a round of retry_failed_posts               *)
(* (src/comment.py)                                                         *)

\* most ids in failed_post_ids when retry_failed_posts is called
NumBacklog == 6

BacklogIds == 1..NumBacklog

VARIABLES
    rr_pc,            \* position of retry_failed_posts
    rr_failed,        \* WeiboCommentScraper.failed_post_ids
    rr_success,       \* WeiboCommentScraper.success_post_ids
    rr_to_retry,      \* retry_failed_posts: post_ids_to_retry
    rr_batch_size,    \* the batch_size argument
    rr_concurrent,    \* the max_concurrent_batches argument
    rr_task,          \* process_batch task -> position
    rr_idx,           \* process_batch task -> index of post_id in its batch
    rr_completed,     \* scrape_comments_for_post_ids: completed_batches
    rr_file           \* comment_scraping_progress.json

varsRound == <<rr_pc, rr_failed, rr_success, rr_to_retry, rr_batch_size, rr_concurrent,
               rr_task, rr_idx, rr_completed, rr_file>>

\* line 151: batches = [post_ids[i:i+batch_size] for i in range(0, len, batch_size)];
\* the positions of batch b in post_ids
BatchSlice(n, size, b) ==
    {k \in 1..n : (b - 1) * size < k /\ k <= b * size}

\* line 157: total_batches = len(batches)
BatchCount(n, size) == (n + size - 1) \div size

\* lines 92-98 and 101-117: the failed ids become post_ids_to_retry,
\* failed_post_ids is cleared, and scrape_comments_for_post_ids makes its tasks
RoundCall ==
    /\ rr_pc = "called"
    /\ rr_failed # {}
    /\ rr_to_retry' = SortedSeq(rr_failed)
    /\ rr_failed' = {}
    /\ rr_task' = [b \in BacklogIds |->
                     IF b <= BatchCount(Cardinality(rr_failed), rr_batch_size)
                     THEN "queued" ELSE "idle"]
    /\ rr_pc' = "gather"
    /\ UNCHANGED <<rr_success, rr_batch_size, rr_concurrent, rr_idx, rr_completed, rr_file>>

\* line 163: a process_batch task gets the semaphore
RoundEnter(b) ==
    /\ rr_pc = "gather"
    /\ rr_task[b] = "queued"
    /\ Cardinality({c \in BacklogIds : rr_task[c] = "running"}) < rr_concurrent
    /\ rr_task' = [rr_task EXCEPT ![b] = "running"]
    /\ UNCHANGED <<rr_pc, rr_failed, rr_success, rr_to_retry, rr_batch_size, rr_concurrent,
                   rr_idx, rr_completed, rr_file>>

\* lines 168-220: the next post of the batch is skipped, succeeds or fails; after
\* the last post of the batch completed_batches is counted and, at every fifth
\* batch and at the last, save_progress writes the two sets
RoundUnit(b, ok) ==
    /\ rr_pc = "gather"
    /\ rr_task[b] = "running"
    /\ LET n == Len(rr_to_retry)
           slice == BatchSlice(n, rr_batch_size, b)
           post_id == rr_to_retry[((b - 1) * rr_batch_size) + rr_idx[b]]
           succ == IF post_id \in rr_success \/ ok
                   THEN rr_success \cup {post_id} ELSE rr_success
           fail == IF post_id \in rr_success \/ ok
                   THEN rr_failed ELSE rr_failed \cup {post_id}
           completed == rr_completed + 1
       IN  /\ rr_success' = succ
           /\ rr_failed' = fail
           /\ IF rr_idx[b] < Cardinality(slice)
              THEN /\ rr_idx' = [rr_idx EXCEPT ![b] = rr_idx[b] + 1]
                   /\ UNCHANGED <<rr_task, rr_completed, rr_file>>
              ELSE /\ rr_task' = [rr_task EXCEPT ![b] = "done"]
                   /\ rr_completed' = completed
                   /\ rr_file' =
                         IF completed % SavePeriod = 0
                            \/ completed = BatchCount(n, rr_batch_size)
                         THEN Snapshot(succ, fail)
                         ELSE rr_file
                   /\ UNCHANGED rr_idx
    /\ UNCHANGED <<rr_pc, rr_to_retry, rr_batch_size, rr_concurrent>>

\* lines 228, 121-122: gather has every result; the ids that failed again become
\* post_ids_to_retry and failed_post_ids is cleared
RoundGathered ==
    /\ rr_pc = "gather"
    /\ \A b \in BacklogIds : rr_task[b] \in {"idle", "done"}
    /\ rr_to_retry' = SortedSeq(rr_failed)
    /\ rr_failed' = {}
    /\ rr_pc' = "round_done"
    /\ UNCHANGED <<rr_success, rr_batch_size, rr_concurrent, rr_task, rr_idx,
                   rr_completed, rr_file>>

RoundIdle ==
    /\ rr_pc = "idle"
    /\ rr_failed = {}
    /\ rr_success = {}
    /\ rr_to_retry = <<>>
    /\ rr_batch_size = 1
    /\ rr_concurrent = 1
    /\ rr_task = [b \in BacklogIds |-> "idle"]
    /\ rr_idx = [b \in BacklogIds |-> 1]
    /\ rr_completed = 0
    /\ rr_file = NoProgressFile

\* retry_failed_posts is called after a scrape call has left ids in
\* failed_post_ids and its last batch has saved them
RoundStart ==
    /\ rr_pc = "called"
    /\ rr_failed \in {1..n : n \in 1..NumBacklog}
    /\ rr_success = {}
    /\ rr_to_retry = <<>>
    /\ rr_batch_size \in 1..MaxBatchSize
    /\ rr_concurrent \in 1..MaxConcurrentBatches
    /\ rr_task = [b \in BacklogIds |-> "idle"]
    /\ rr_idx = [b \in BacklogIds |-> 1]
    /\ rr_completed = 0
    /\ rr_file = Snapshot(rr_success, rr_failed)

-----------------------------------------------------------------------------
(* WeiboCommentScraper.save_progress and load_progress (src/comment.py)     *)
(* The post ids are the note_id strings of the content file; each stands    *)
(* here as a number.  The file system performs the writes it is asked for.  *)

\* post ids a run can record
NumStoreIds == 2

StoreIds == 1..NumStoreIds

VARIABLES
    ps_pc,        \* "running", or "loaded" right after load_progress
    ps_success,   \* WeiboCommentScraper.success_post_ids
    ps_failed,    \* WeiboCommentScraper.failed_post_ids
    ps_file,      \* comment_scraping_progress.json: two JSON arrays, or no file
    ps_saved,     \* the two sets as they were in memory at the latest save_progress
    ps_saves      \* save_progress calls so far, counted up to two

varsStore == <<ps_pc, ps_success, ps_failed, ps_file, ps_saved, ps_saves>>

\* lines 61-62: list(a set): its elements once each, in an order of Python's choosing
ListsOf(S) ==
    {q \in [1..Cardinality(S) -> S] : \A i, j \in 1..Cardinality(S) : i # j => q[i] # q[j]}

\* lines 191-205: process_batch records the outcome of a post
StoreRecord(u, ok) ==
    /\ ps_success' = IF ok THEN ps_success \cup {u} ELSE ps_success
    /\ ps_failed' = IF ok THEN ps_failed ELSE ps_failed \cup {u}
    /\ ps_pc' = "running"
    /\ UNCHANGED <<ps_file, ps_saved, ps_saves>>

\* lines 57-66: the two sets are written as JSON arrays
SaveProgress ==
    /\ \E succ \in ListsOf(ps_success), fail \in ListsOf(ps_failed) :
          ps_file' = [exists |-> TRUE, success_post_ids |-> succ, failed_post_ids |-> fail]
    /\ ps_saved' = [success_post_ids |-> ps_success, failed_post_ids |-> ps_failed]
    /\ ps_saves' = IF ps_saves < 2 THEN ps_saves + 1 ELSE ps_saves
    /\ UNCHANGED <<ps_pc, ps_success, ps_failed>>

\* a plausible slip: both sets are read from the "success_post_ids" array
LoadProgress_OneKey ==
    /\ ps_success' = IF ps_file.exists THEN SeqRange(ps_file.success_post_ids) ELSE {}
    /\ ps_failed' = IF ps_file.exists THEN SeqRange(ps_file.success_post_ids) ELSE {}
    /\ ps_pc' = "loaded"
    /\ UNCHANGED <<ps_file, ps_saved, ps_saves>>

\* the process ended (by a crash or not); lines 21-22 and 42 of a new
\* WeiboCommentScraper: the sets start empty, and lines 44-52: load_progress
\* reads the file, if there is one, into set(...) of each array
LoadProgress ==
    /\ ps_success' = IF ps_file.exists THEN SeqRange(ps_file.success_post_ids) ELSE {}
    /\ ps_failed' = IF ps_file.exists THEN SeqRange(ps_file.failed_post_ids) ELSE {}
    /\ ps_pc' = "loaded"
    /\ UNCHANGED <<ps_file, ps_saved, ps_saves>>

StoreIdle ==
    /\ ps_pc = "idle"
    /\ ps_success = {}
    /\ ps_failed = {}
    /\ ps_file = [exists |-> FALSE, success_post_ids |-> <<>>, failed_post_ids |-> <<>>]
    /\ ps_saved = [success_post_ids |-> {}, failed_post_ids |-> {}]
    /\ ps_saves = 0

\* WeiboCommentScraper.__init__ where there is no progress file yet
StoreStart ==
    /\ ps_pc = "running"
    /\ ps_success = {}
    /\ ps_failed = {}
    /\ ps_file = [exists |-> FALSE, success_post_ids |-> <<>>, failed_post_ids |-> <<>>]
    /\ ps_saved = [success_post_ids |-> {}, failed_post_ids |-> {}]
    /\ ps_saves = 0

\* the subsystems after the AccountManager
varsNew == <<varsPace, varsRotate, varsRound, varsStore>>

NewIdle == PaceIdle /\ RotateIdle /\ RoundIdle /\ StoreIdle

varsLater == <<varsSdk, varsNew>>

LaterIdle == SdkIdle /\ NewIdle

-----------------------------------------------------------------------------
(* Specifications *)

\* the subsystems below
varsExtra == <<varsSearch, varsSched, varsBatch, varsMany, varsLater>>

ExtraIdle == SearchIdle /\ SchedIdle /\ BatchIdle /\ ManyIdle /\ LaterIdle


vars == <<varsAccounts, varsProgress, varsProxy, varsCrawler, varsExtra>>

AccountsIdle ==
    /\ now = 1
    /\ ticks = 0
    /\ failures = 0
    /\ failure_budget = 0
    /\ accounts = [a \in Accounts |-> NewAccount(FALSE, 0)]
    /\ account_lock = FALSE
    /\ processed_comments = {}
    /\ stats = NewStats
    /\ with_retry = TRUE
    /\ concurrency = 1
    /\ post_ids = [t \in Tasks |-> 1]
    /\ fc_pc = [t \in Tasks |-> "queued"]
    /\ fc_account = [t \in Tasks |-> NoAccount]
    /\ fc_retries = [t \in Tasks |-> 0]
    /\ fc_site = [t \in Tasks |-> 1]
    /\ fc_in_lock = [t \in Tasks |-> FALSE]
    /\ fc_wake = [t \in Tasks |-> 0]
    /\ fc_result = [t \in Tasks |-> "none"]
    /\ long_pauses = [a \in Accounts |-> 0]
    /\ last_select = [account |-> NoAccount, in_cooldown |-> FALSE,
                      was_cooled |-> FALSE]
    /\ fc_attempt = [t \in Tasks |-> [account |-> NoAccount, request_count |-> 0]]

varsCore == <<varsAccounts, varsProgress, varsProxy, varsCrawler>>

CoreIdle == AccountsIdle /\ ProgressIdle /\ ProxyIdle /\ CrawlerIdle

\* EnhancedWeiboScraper.batch_get_comments
InitAccounts == AccountsStart /\ ProgressIdle /\ ProxyIdle /\ CrawlerIdle /\ ExtraIdle

NextAccounts ==
    \/ \E t \in Tasks : FcStart(t) /\ UNCHANGED <<varsProgress, varsProxy, varsCrawler, varsExtra>>
    \/ \E t \in Tasks : RotateSelect(t) /\ UNCHANGED <<varsProgress, varsProxy, varsCrawler, varsExtra>>
    \/ \E t \in Tasks : RotateWait(t) /\ UNCHANGED <<varsProgress, varsProxy, varsCrawler, varsExtra>>
    \/ \E t \in Tasks : CooldownWake(t) /\ UNCHANGED <<varsProgress, varsProxy, varsCrawler, varsExtra>>
    \/ \E t \in Tasks : RotateNoAccount(t) /\ UNCHANGED <<varsProgress, varsProxy, varsCrawler, varsExtra>>
    \/ \E t \in Tasks : PacingDone(t) /\ UNCHANGED <<varsProgress, varsProxy, varsCrawler, varsExtra>>
    \/ \E t \in Tasks : LongPauseDone(t) /\ UNCHANGED <<varsProgress, varsProxy, varsCrawler, varsExtra>>
    \/ \E t \in Tasks : RequestOk(t) /\ UNCHANGED <<varsProgress, varsProxy, varsCrawler, varsExtra>>
    \/ \E t \in Tasks : RequestMore(t) /\ UNCHANGED <<varsProgress, varsProxy, varsCrawler, varsExtra>>
    \/ \E t \in Tasks : RequestFail(t) /\ UNCHANGED <<varsProgress, varsProxy, varsCrawler, varsExtra>>
    \/ TickAccounts /\ UNCHANGED <<varsProgress, varsProxy, varsCrawler, varsExtra>>

SpecAccounts == InitAccounts /\ [][NextAccounts]_vars

\* the event loop runs every task that can run
FairSpecAccounts ==
    SpecAccounts /\ \A t \in Tasks : WF_vars(TaskStep(t) /\ UNCHANGED <<varsProgress, varsProxy, varsCrawler, varsExtra>>)

\* the retry loop of one fetch_comments task
InitRetry == RetryStart /\ ProgressIdle /\ ProxyIdle /\ CrawlerIdle /\ ExtraIdle

SpecRetry == InitRetry /\ [][NextAccounts]_vars

\* batch_get_comments on accounts that have failed before
InitCooldown == CooldownStart /\ ProgressIdle /\ ProxyIdle /\ CrawlerIdle /\ ExtraIdle

SpecCooldown == InitCooldown /\ [][NextAccounts]_vars

\* scrape_comments_for_existing_content of src/comment.py
InitProgress == ProgressStart /\ AccountsIdle /\ ProxyIdle /\ CrawlerIdle /\ ExtraIdle

NextProgress ==
    \/ MainStart /\ UNCHANGED <<varsAccounts, varsProxy, varsCrawler, varsExtra>>
    \/ DirectCall /\ UNCHANGED <<varsAccounts, varsProxy, varsCrawler, varsExtra>>
    \/ DirectReturn /\ UNCHANGED <<varsAccounts, varsProxy, varsCrawler, varsExtra>>
    \/ \E b \in BatchIds : BatchEnter(b) /\ UNCHANGED <<varsAccounts, varsProxy, varsCrawler, varsExtra>>
    \/ \E b \in BatchIds : UnitDispatch(b) /\ UNCHANGED <<varsAccounts, varsProxy, varsCrawler, varsExtra>>
    \/ \E b \in BatchIds : UnitProxyError(b) /\ UNCHANGED <<varsAccounts, varsProxy, varsCrawler, varsExtra>>
    \/ \E b \in BatchIds : Fetch0Ok(b) /\ UNCHANGED <<varsAccounts, varsProxy, varsCrawler, varsExtra>>
    \/ \E b \in BatchIds : Fetch0Fail(b) /\ UNCHANGED <<varsAccounts, varsProxy, varsCrawler, varsExtra>>
    \/ \E b \in BatchIds : Fetch1Ok(b) /\ UNCHANGED <<varsAccounts, varsProxy, varsCrawler, varsExtra>>
    \/ \E b \in BatchIds : Fetch1Fail(b) /\ UNCHANGED <<varsAccounts, varsProxy, varsCrawler, varsExtra>>
    \/ CallReturn /\ UNCHANGED <<varsAccounts, varsProxy, varsCrawler, varsExtra>>
    \/ RetrySleepDone /\ UNCHANGED <<varsAccounts, varsProxy, varsCrawler, varsExtra>>
    \/ MainCancel /\ UNCHANGED <<varsAccounts, varsProxy, varsCrawler, varsExtra>>
    \/ MainClose /\ UNCHANGED <<varsAccounts, varsProxy, varsCrawler, varsExtra>>

SpecProgress == InitProgress /\ [][NextProgress]_vars

\* callers of ProxyManager.get_proxy
InitProxy == ProxyStart /\ AccountsIdle /\ ProgressIdle /\ CrawlerIdle /\ ExtraIdle

NextProxy ==
    \/ \E c \in Callers : GetProxyCall(c) /\ UNCHANGED <<varsAccounts, varsProgress, varsCrawler, varsExtra>>
    \/ \E c \in Callers : GetProxyEnter(c) /\ UNCHANGED <<varsAccounts, varsProgress, varsCrawler, varsExtra>>
    \/ \E c \in Callers : ReplenishAnswer(c) /\ UNCHANGED <<varsAccounts, varsProgress, varsCrawler, varsExtra>>
    \/ \E c \in Callers : ReplenishError(c) /\ UNCHANGED <<varsAccounts, varsProgress, varsCrawler, varsExtra>>
    \/ \E c \in Callers : ForceAnswer(c) /\ UNCHANGED <<varsAccounts, varsProgress, varsCrawler, varsExtra>>
    \/ \E c \in Callers : ForceError(c) /\ UNCHANGED <<varsAccounts, varsProgress, varsCrawler, varsExtra>>
    \/ TickProxy /\ UNCHANGED <<varsAccounts, varsProgress, varsCrawler, varsExtra>>

SpecProxy == InitProxy /\ [][NextProxy]_vars

\* WeiboCrawler.batch_get_notes_comments
InitCrawler == CrawlerStart /\ AccountsIdle /\ ProgressIdle /\ ProxyIdle /\ ExtraIdle

NextCrawler ==
    \/ \E n \in Notes : NoteStart(n) /\ UNCHANGED <<varsAccounts, varsProgress, varsProxy, varsExtra>>
    \/ \E n \in Notes : NoteOk(n) /\ UNCHANGED <<varsAccounts, varsProgress, varsProxy, varsExtra>>
    \/ \E n \in Notes :
          NoteDataFetchError(n) /\ UNCHANGED <<varsAccounts, varsProgress, varsProxy, varsExtra>>
    \/ \E n \in Notes : NoteTimeout(n) /\ UNCHANGED <<varsAccounts, varsProgress, varsProxy, varsExtra>>
    \/ \E n \in Notes : NoteBlock(n) /\ UNCHANGED <<varsAccounts, varsProgress, varsProxy, varsExtra>>
    \/ \E n \in Notes :
          NoteOtherError(n) /\ UNCHANGED <<varsAccounts, varsProgress, varsProxy, varsExtra>>

SpecCrawler == InitCrawler /\ [][NextCrawler]_vars

\* MultiAccountWeiboScraper.search_by_keyword
InitSearch == SearchStart /\ CoreIdle /\ SchedIdle /\ BatchIdle /\ ManyIdle /\ LaterIdle

NextSearch ==
    \/ \E p \in Pages : PageEnter(p) /\ UNCHANGED <<varsCore, varsSched, varsBatch, varsMany, varsLater>>
    \/ \E p \in Pages : PageSearchOk(p) /\ UNCHANGED <<varsCore, varsSched, varsBatch, varsMany, varsLater>>
    \/ \E p \in Pages : PageSearchFail(p) /\ UNCHANGED <<varsCore, varsSched, varsBatch, varsMany, varsLater>>
    \/ \E p \in Pages, n \in PageNotes :
          CommentEnter(p, n) /\ UNCHANGED <<varsCore, varsSched, varsBatch, varsMany, varsLater>>
    \/ \E p \in Pages, n \in PageNotes :
          CommentOk(p, n) /\ UNCHANGED <<varsCore, varsSched, varsBatch, varsMany, varsLater>>
    \/ \E p \in Pages, n \in PageNotes :
          CommentFail(p, n) /\ UNCHANGED <<varsCore, varsSched, varsBatch, varsMany, varsLater>>
    \/ \E p \in Pages, n \in PageNotes :
          CommentSleepDone(p, n) /\ UNCHANGED <<varsCore, varsSched, varsBatch, varsMany, varsLater>>
    \/ \E p \in Pages : CommentsGathered(p) /\ UNCHANGED <<varsCore, varsSched, varsBatch, varsMany, varsLater>>
    \/ \E p \in Pages : PageSleepDone(p) /\ UNCHANGED <<varsCore, varsSched, varsBatch, varsMany, varsLater>>

SpecSearch == InitSearch /\ [][NextSearch]_vars

\* TaskScheduler.schedule_search_task
InitSched == SchedStart /\ CoreIdle /\ SearchIdle /\ BatchIdle /\ ManyIdle /\ LaterIdle

NextSched ==
    \/ ScheduleSearch /\ UNCHANGED <<varsCore, varsSearch, varsBatch, varsMany, varsLater>>
    \/ SubmitTask /\ UNCHANGED <<varsCore, varsSearch, varsBatch, varsMany, varsLater>>
    \/ SubmitDone /\ UNCHANGED <<varsCore, varsSearch, varsBatch, varsMany, varsLater>>
    \/ \E i \in TaskSlots : WorkerStart(i) /\ UNCHANGED <<varsCore, varsSearch, varsBatch, varsMany, varsLater>>
    \/ \E i \in TaskSlots : WorkerOk(i) /\ UNCHANGED <<varsCore, varsSearch, varsBatch, varsMany, varsLater>>
    \/ \E i \in TaskSlots : WorkerError(i) /\ UNCHANGED <<varsCore, varsSearch, varsBatch, varsMany, varsLater>>
    \/ CollectResult /\ UNCHANGED <<varsCore, varsSearch, varsBatch, varsMany, varsLater>>
    \/ ScheduleReturn /\ UNCHANGED <<varsCore, varsSearch, varsBatch, varsMany, varsLater>>

SpecSched == InitSched /\ [][NextSched]_vars

\* EnhancedWeiboScraper.batch_get_comments as it is called
InitBatch == BatchStart /\ CoreIdle /\ SearchIdle /\ SchedIdle /\ ManyIdle /\ LaterIdle

NextBatch ==
    \/ ScrapeExisting /\ UNCHANGED <<varsCore, varsSearch, varsSched, varsMany, varsLater>>
    \/ BatchGetComments /\ UNCHANGED <<varsCore, varsSearch, varsSched, varsMany, varsLater>>
    \/ PrintSummary /\ UNCHANGED <<varsCore, varsSearch, varsSched, varsMany, varsLater>>

SpecBatch == InitBatch /\ [][NextBatch]_vars

\* TaskScheduler.schedule_*_task: initialize_pool, get_proxies_for_concurrent_tasks
InitMany == ProxyStart /\ ManyStart /\ AccountsIdle /\ ProgressIdle /\ CrawlerIdle /\ SearchIdle /\ SchedIdle /\ BatchIdle /\ LaterIdle

NextMany ==
    \/ InitializePoolCall /\ UNCHANGED <<varsAccounts, varsProgress, varsCrawler, varsGetProxy, varsSearch, varsSched, varsBatch, varsLater>>
    \/ InitializePoolAnswer /\ UNCHANGED <<varsAccounts, varsProgress, varsCrawler, varsGetProxy, varsSearch, varsSched, varsBatch, varsLater>>
    \/ InitializePoolError /\ UNCHANGED <<varsAccounts, varsProgress, varsCrawler, varsGetProxy, varsSearch, varsSched, varsBatch, varsLater>>
    \/ \E count \in Counts : GetManyCall(count) /\ UNCHANGED <<varsAccounts, varsProgress, varsCrawler, varsGetProxy, varsSearch, varsSched, varsBatch, varsLater>>
    \/ ManyReplenishAnswer /\ UNCHANGED <<varsAccounts, varsProgress, varsCrawler, varsGetProxy, varsSearch, varsSched, varsBatch, varsLater>>
    \/ ManyReplenishError /\ UNCHANGED <<varsAccounts, varsProgress, varsCrawler, varsGetProxy, varsSearch, varsSched, varsBatch, varsLater>>
    \/ ManyForceAnswer /\ UNCHANGED <<varsAccounts, varsProgress, varsCrawler, varsGetProxy, varsSearch, varsSched, varsBatch, varsLater>>
    \/ ManyForceError /\ UNCHANGED <<varsAccounts, varsProgress, varsCrawler, varsGetProxy, varsSearch, varsSched, varsBatch, varsLater>>
    \/ TickProxy /\ UNCHANGED <<varsAccounts, varsProgress, varsCrawler, varsMany, varsSearch, varsSched, varsBatch, varsLater>>

SpecMany == InitMany /\ [][NextMany]_vars

\* AccountManager: add_account, get_available_account, get_accounts_for_concurrent_tasks
InitSdk == SdkStart /\ CoreIdle /\ SearchIdle /\ SchedIdle /\ BatchIdle /\ ManyIdle /\ NewIdle

NextSdk ==
    \/ AddAccount /\ UNCHANGED <<varsCore, varsSearch, varsSched, varsBatch, varsMany, varsNew>>
    \/ GetAvailableAccount /\ UNCHANGED <<varsCore, varsSearch, varsSched, varsBatch, varsMany, varsNew>>
    \/ \E count \in 0..MaxSdkCount :
          GetAccountsForConcurrentTasks(count) /\ UNCHANGED <<varsCore, varsSearch, varsSched, varsBatch, varsMany, varsNew>>
    \/ SdkTick /\ UNCHANGED <<varsCore, varsSearch, varsSched, varsBatch, varsMany, varsNew>>

SpecSdk == InitSdk /\ [][NextSdk]_vars

\* everything before the subsystems of varsNew
varsOld == <<varsCore, varsSearch, varsSched, varsBatch, varsMany, varsSdk>>

OldIdle == CoreIdle /\ SearchIdle /\ SchedIdle /\ BatchIdle /\ ManyIdle /\ SdkIdle

\* the delay between the requests of one worker
InitPace == PaceStart /\ OldIdle /\ RotateIdle /\ RoundIdle /\ StoreIdle

NextPace ==
    \/ PaceSleep /\ UNCHANGED <<varsOld, varsRotate, varsRound, varsStore>>
    \/ PaceRequest /\ UNCHANGED <<varsOld, varsRotate, varsRound, varsStore>>
    \/ MultiRequest /\ UNCHANGED <<varsOld, varsRotate, varsRound, varsStore>>
    \/ MultiFinally /\ UNCHANGED <<varsOld, varsRotate, varsRound, varsStore>>
    \/ PaceNext /\ UNCHANGED <<varsOld, varsRotate, varsRound, varsStore>>

SpecPace == InitPace /\ [][NextPace]_vars

\* one call of EnhancedWeiboScraper.rotate_proxy
InitRotate == RotateStart /\ OldIdle /\ PaceIdle /\ RoundIdle /\ StoreIdle

NextRotate ==
    \/ RotateProxyCall /\ UNCHANGED <<varsOld, varsPace, varsRound, varsStore>>
    \/ ProxyAcquired /\ UNCHANGED <<varsOld, varsPace, varsRound, varsStore>>
    \/ ProxyValidated /\ UNCHANGED <<varsOld, varsPace, varsRound, varsStore>>
    \/ ProxyRejected /\ UNCHANGED <<varsOld, varsPace, varsRound, varsStore>>
    \/ ProxyAttemptError /\ UNCHANGED <<varsOld, varsPace, varsRound, varsStore>>
    \/ ProxySleepDone /\ UNCHANGED <<varsOld, varsPace, varsRound, varsStore>>

SpecRotate == InitRotate /\ [][NextRotate]_vars

\* retry_failed_posts: its first round
InitRound == RoundStart /\ OldIdle /\ PaceIdle /\ RotateIdle /\ StoreIdle

NextRound ==
    \/ RoundCall /\ UNCHANGED <<varsOld, varsPace, varsRotate, varsStore>>
    \/ \E b \in BacklogIds : RoundEnter(b) /\ UNCHANGED <<varsOld, varsPace, varsRotate, varsStore>>
    \/ \E b \in BacklogIds, ok \in BOOLEAN :
          RoundUnit(b, ok) /\ UNCHANGED <<varsOld, varsPace, varsRotate, varsStore>>
    \/ RoundGathered /\ UNCHANGED <<varsOld, varsPace, varsRotate, varsStore>>

SpecRound == InitRound /\ [][NextRound]_vars

\* the progress file over the runs of a scraper
InitStore == StoreStart /\ OldIdle /\ PaceIdle /\ RotateIdle /\ RoundIdle

NextStore ==
    \/ \E u \in StoreIds, ok \in BOOLEAN :
          StoreRecord(u, ok) /\ UNCHANGED <<varsOld, varsPace, varsRotate, varsRound>>
    \/ SaveProgress /\ UNCHANGED <<varsOld, varsPace, varsRotate, varsRound>>
    \/ LoadProgress /\ UNCHANGED <<varsOld, varsPace, varsRotate, varsRound>>

SpecStore == InitStore /\ [][NextStore]_vars

\* every await of rotate_proxy ends: get_proxy answers or raises, the test
\* request has a timeout of 10 seconds, the sleep lasts one second
FairSpecRotate == SpecRotate /\ WF_vars(NextRotate)

-----------------------------------------------------------------------------
(* Claims on the account pool *)

\* C1: rotate_account never returns an account that is in cooldown at the moment
\* of the return (cooldown_until later than the current time)
C1_NoCooldownAccountSelected ==
    last_select.account # NoAccount => ~last_select.in_cooldown

\* C1 witness: an account that had been put in cooldown was returned after its
\* cooldown had run out
C1_Witness ==
    /\ last_select.account # NoAccount
    /\ last_select.was_cooled

C6_WaitEndsInSelection ==
    \A t \in Tasks :
        (fc_pc[t] = "cooldown_wait" /\ now >= fc_wake[t]) ~> (fc_pc[t] \in AttemptPcs)

\* C9 as stated: once rotate_account has raised "No active accounts available"
\* the run is over: no fetch_comments task is started after that
C9_NoIdentityIsFatal ==
    [][(\E t \in Tasks : fc_result[t] = "raised")
        => (\A u \in Tasks : fc_pc[u] = "queued" => fc_pc'[u] = "queued")]_vars

-----------------------------------------------------------------------------
(* Claims on the progress store *)

\* a call has returned, or the whole run has completed
AtRest ==
    \/ CallFinished
    \/ main_pc \in {"closing", "returned"} /\ main_outcome \in {"none", "completed"}

\* C3 as stated: when a scrape or retry call has returned, every id submitted so
\* far is in exactly one of success_post_ids and failed_post_ids
C3_ExactlyOneStatus ==
    AtRest =>
        \A u \in submitted : (u \in success_post_ids) <=> (u \notin failed_post_ids)

\* C4: no identity is selected (and so no request is sent) for an id that was in
\* the success set load_progress read
C4_NoRedispatchOfLoadedSuccess ==
    dispatched \cap loaded_success = {}

\* C4 witness: a resumed run completed in which an id of the loaded success set
\* was submitted again and other ids were dispatched
C4_Witness ==
    /\ main_pc = "returned"
    /\ main_outcome = "completed"
    /\ loaded_success \cap submitted # {}
    /\ dispatched # {}

\* C7 as stated: when a scrape call has returned, every id of the call whose
\* requests all raised is in failed_post_ids
C7_ExhaustedRecordedFailed ==
    CallFinished =>
        \A u \in SeqRange(call_ids) :
            unit_result[u] = "exhausted" => u \in failed_post_ids

\* C8 as stated: when the run has returned, by completion or by cancellation, the
\* progress file holds the success and failed sets that are in memory
C8_FlushedAtShutdown ==
    (main_pc = "returned" /\ main_outcome \in {"completed", "cancelled"})
        => /\ progress_file.success_post_ids = success_post_ids
           /\ progress_file.failed_post_ids = failed_post_ids

-----------------------------------------------------------------------------
(* Claims on the proxy pool *)

\* C5 as stated: a lease returned by get_proxy has expired_time_ts later than the
\* time of the return
C5_NoExpiredLeaseReturned ==
    \A c \in Callers :
        gp_result[c].kind = "lease" => gp_result[c].expired_time_ts > gp_result[c].at

-----------------------------------------------------------------------------
(* Claims on the crawler *)

\* C10: the count of block events never passes the ceiling; when it reaches the
\* ceiling the run has ended, and after the end no task has a request in flight
\* or is still to send one
C10_AbortAtCeiling ==
    /\ block_count <= BlockCeiling
    /\ block_count >= BlockCeiling => exited
    /\ exited => \A n \in Notes : note_pc[n] \in {"done", "exit", "cancelled"}

\* C10 witness: the run ended at the ceiling while other tasks were waiting or had
\* a request in flight
C10_Witness ==
    /\ exited
    /\ block_count = BlockCeiling
    /\ \E n \in Notes : note_pc[n] = "cancelled"
-----------------------------------------------------------------------------
(* Claims on the nested search *)

\* C11: the number of units in flight (account selected, request not yet
\* answered) never exceeds the concurrency the caller fixed, also while a
\* fetch_page worker runs its nested batch of comment fetches.
C11_InFlightWithinConcurrency == SearchInFlight <= search_concurrency

-----------------------------------------------------------------------------
(* Claims on the task scheduler *)

\* C12: schedule_search_task creates and submits at most concurrent_tasks tasks,
\* for every keyword list and every concurrent_tasks >= 1.
C12_AtMostConcurrentTasks ==
    /\ Len(sched_tasks) <= concurrent_tasks
    /\ futures <= concurrent_tasks

-----------------------------------------------------------------------------
(* Claims on the statistics of a batch *)

\* C13: when every fetch_comments task of a batch has ended (none of them with
\* the no-account error), each of the N distinct submitted posts has been counted
\* exactly once, as a success or as a failure:
\* successful_posts + failed_posts = total_posts_processed = N.
C13_EachUnitCountedOnce ==
    (\A t \in Tasks : fc_pc[t] = "done" /\ fc_result[t] # "raised")
        => /\ stats.successful_posts + stats.failed_posts = stats.total_posts_processed
           /\ stats.total_posts_processed = Cardinality({post_ids[t] : t \in Tasks})

-----------------------------------------------------------------------------
(* Claims on the dispatch of a batch *)

\* C14: when batch_get_comments(post_ids) has returned, every post of post_ids
\* that was not already processed has been handed to a fetch_comments worker,
\* and the call has returned the list of collected results.
C14_EveryUnitDispatched ==
    bgc_result # "unset"
        => /\ \A i \in DOMAIN bgc_post_ids :
                 bgc_post_ids[i] \notin bgc_processed => bgc_post_ids[i] \in bgc_tasks
           /\ bgc_result = "list"

-----------------------------------------------------------------------------
(* Claims on the retry delay *)

\* C15: the retry delay of a unit, ignoring jitter, stays within the configured
\* cap (max_delay = 12 s), and the delay with jitter never exceeds the cap plus
\* the jitter bound (cap * 1.5), also while retry_failed_posts re-runs the failed
\* backlog.
C15_DelayWithinConfiguredCap ==
    /\ last_backoff.backoff_delay <= InitMaxDelay
    /\ last_backoff.jitter_delay <= (InitMaxDelay * (10 + jitter)) \div 10

-----------------------------------------------------------------------------
(* Claims on the retry loop *)

-----------------------------------------------------------------------------
(* Claims on the replenishment and the choice of get_proxy *)

\* a get_proxy call of c on an enabled manager has returned, and the pool held no
\* lease when the call took the lock
ReturnedFromEmptyPool(c) ==
    /\ enable_proxy
    /\ gp_pc[c] = "idle"
    /\ gp_result[c].kind # "none"
    /\ gp_trace[c].entry_size = 0

\* C17: a get_proxy on a pool holding no lease makes exactly one replenishment
\* call to the provider, asking for at least 5 leases, before it returns,
\* whatever the provider hands back.
C17_ExactlyOneReplenishment ==
    \A c \in Callers :
        ReturnedFromEmptyPool(c)
            => /\ gp_trace[c].fetches = 1
               /\ gp_trace[c].least_asked >= MinFetch

\* C17 as amended: such a get_proxy makes one replenishment call, or two when
\* every lease the first call handed back is about to expire; each call asks for
\* at least 5 leases; after a single call the result is None or a lease with more
\* than 60 s left.
C17_OneOrTwoReplenishments ==
    \A c \in Callers :
        ReturnedFromEmptyPool(c)
            => /\ gp_trace[c].fetches \in {1, 2}
               /\ gp_trace[c].least_asked >= MinFetch
               /\ gp_result[c].kind = "null" => gp_trace[c].fetches = 1
               /\ (gp_result[c].kind = "lease" /\ gp_trace[c].fetches = 1)
                      => gp_result[c].expired_time_ts - gp_result[c].at
                             > proxy_replacement_threshold

\* a get_proxy on an empty pool returned a lease after a forced replenishment
C17_Witness ==
    \E c \in Callers :
        /\ ReturnedFromEmptyPool(c)
        /\ gp_result[c].kind = "lease"
        /\ gp_trace[c].fetches = 2

\* C19: every lease returned by get_proxy has at least 60 s left when it is
\* returned and is the least recently used of the leases that clear that margin.
C19_ReturnedLeaseClearsMargin ==
    \A c \in Callers :
        gp_result[c].kind = "lease"
            => /\ gp_result[c].expired_time_ts - gp_result[c].at
                      >= proxy_replacement_threshold
               /\ gp_result[c].lru

-----------------------------------------------------------------------------
(* Claims on get_proxies_for_concurrent_tasks *)

\* C18: on an enabled pool get_proxies_for_concurrent_tasks(n) returns n leases
\* and no None whenever every provider call it made handed back all the leases
\* asked for; it returns fewer than n leases only if some provider call did not.
C18_AllLeasesWhenProviderSupplies ==
    (enable_proxy /\ gm_pc = "returned" /\ gm_result.kind = "list")
        => /\ gm_supplied => (gm_result.leases = gm_count /\ gm_result.nones = 0)
           /\ gm_result.leases < gm_count => ~gm_supplied

\* a call for more leases than the full pool held returned them all after a
\* provider call that supplied the missing ones
C18_Witness ==
    /\ enable_proxy
    /\ gm_pc = "returned"
    /\ gm_result.kind = "list"
    /\ gm_supplied
    /\ gm_count > initial_size
    /\ gm_result.leases = gm_count
    /\ Len(proxies) > initial_size

-----------------------------------------------------------------------------
(* Claims on the choice of rotate_account *)

\* C20: a rotate_account that returns hands out an account that is logged in and
\* not in cooldown and that no such account precedes in the lexicographic order
\* of (error_count, last_used_time, request_count); in the same step it sets the
\* account's last_used_time to now and adds 1 to its request_count, and changes
\* nothing else of the accounts.
C20_RotateMinimisesKey ==
    [][\A t \in Tasks :
          (fc_pc[t] = "rotate" /\ fc_pc'[t] \in {"pacing", "request2"})
              => LET a == fc_account'[t]
                     x == accounts[a]
                 IN  /\ a \in Accounts
                     /\ x.is_logged_in
                     /\ ~(now < x.cooldown_until)
                     /\ \A b \in Accounts :
                           (accounts[b].is_logged_in /\ ~(now < accounts[b].cooldown_until))
                               => LET y == accounts[b]
                                  IN  \/ x.error_count < y.error_count
                                      \/ /\ x.error_count = y.error_count
                                         /\ x.last_used_time < y.last_used_time
                                      \/ /\ x.error_count = y.error_count
                                         /\ x.last_used_time = y.last_used_time
                                         /\ x.request_count <= y.request_count
                     /\ accounts'[a] = [x EXCEPT !.last_used_time = now,
                                                 !.request_count = x.request_count + 1]
                     /\ \A b \in Accounts \ {a} : accounts'[b] = accounts[b]
      ]_vars

\* a rotation has just handed out an account that is not the first of
\* self.accounts, while an account before it is active with a larger key
C20_Witness ==
    \E a \in Accounts :
        /\ last_select.account = a
        /\ accounts[a].last_used_time = now
        /\ accounts[a].request_count > 0
        /\ \E b \in Accounts :
              /\ b < a
              /\ accounts[b].is_logged_in
              /\ ~is_in_cooldown(b)
              /\ accounts[b].error_count > accounts[a].error_count

-----------------------------------------------------------------------------
(* Claims on the absorption of failures *)

\* C21: whatever network and rate-limit failures the requests of a call meet, no
\* process_batch task of scrape_comments_for_post_ids ends with an exception, so
\* gather hands the caller only lists and the call returns normally.
C21_FailuresAbsorbed ==
    \A b \in BatchIds : pb_pc[b] # "raised"

\* a call has returned after a proxy rotation and both requests of a post failed
C21_Witness ==
    /\ CallFinished
    /\ unit_errors >= 3
    /\ failed_post_ids # {}
    /\ \E u \in SeqRange(call_ids) : unit_result[u] = "exhausted"
    /\ \A b \in BatchIds : pb_pc[b] \in {"idle", "done"}

-----------------------------------------------------------------------------
(* Claims on the consecutive-timeout counter *)

\* C22: timeout_count follows the consecutive network errors up to the threshold
\* 15; at the fifteenth the long break is taken once and the counter then holds
\* 15 \div 2 = 7.
C22_CounterReachesThreshold ==
    /\ (consecutive_timeouts < TimeoutLimit /\ long_breaks = 0)
           => timeout_count >= consecutive_timeouts
    /\ consecutive_timeouts = TimeoutLimit
           => (long_breaks = 1 /\ timeout_count = TimeoutLimit \div 2)

-----------------------------------------------------------------------------
(* Claims on units in flight *)

\* C23: no two process_batch tasks have a request in flight for the same post id
\* at the same time, whatever list was submitted.
C23_NoUnitInFlightTwice ==
    \A b, c \in BatchIds :
        (b # c /\ pb_pc[b] \in {"fetch0", "fetch1"} /\ pb_pc[c] \in {"fetch0", "fetch1"})
            => Batch(call_ids, b)[pb_idx[b]] # Batch(call_ids, c)[pb_idx[c]]

-----------------------------------------------------------------------------
(* Claims on the AccountManager *)

\* C24: with n accounts and nothing but get_available_account calls, the last n
\* calls returned n distinct accounts, whatever clock values the calls saw.
C24_RoundRobin ==
    LET n == Len(sdk_accounts)
        k == Len(sdk_returned)
    IN  (n > 0 /\ k >= n)
            => \A i, j \in (k - n + 1)..k : i # j => sdk_returned[i] # sdk_returned[j]

\* C25: get_accounts_for_concurrent_tasks(platform, count) returns [] when the
\* platform has no account; otherwise it returns count accounts, the first
\* min(count, n) pairwise distinct, and every account's task_count has grown by
\* the number of entries of the list that are this account.
C25_CountAccountsReturned ==
    sdk_many.called =>
        LET n == Len(sdk_many.before)
            first == IF sdk_many.count < n THEN sdk_many.count ELSE n
        IN  /\ n = 0 => sdk_many.result = <<>>
            /\ n > 0 =>
                  /\ Len(sdk_many.result) = sdk_many.count
                  /\ \A i, j \in 1..first :
                        i # j => sdk_many.result[i] # sdk_many.result[j]
                  /\ \A i \in 1..n :
                        \E j \in 1..n :
                            /\ sdk_many.after[j].name = sdk_many.before[i].name
                            /\ sdk_many.after[j].task_count =
                                  sdk_many.before[i].task_count
                                      + Cardinality({k \in 1..Len(sdk_many.result) :
                                            sdk_many.result[k] = sdk_many.before[i].name})

\* a call for more accounts than the platform has returned one of them twice
C25_Witness ==
    /\ sdk_many.called
    /\ Len(sdk_many.before) >= 2
    /\ sdk_many.count > Len(sdk_many.before)
    /\ \E j, k \in 1..Len(sdk_many.result) :
          j # k /\ sdk_many.result[j] = sdk_many.result[k]


\* C26: after a block signal (403/412) for an attempt made with account A, A's
\* error count has been raised, A is in cooldown, and the next attempt for the
\* same post is made with another account or once A's cooldown is over.  Stated
\* for _fetch_comments_with_retry: a process_batch task whose previous attempt
\* for its post was blocked with A
C26_BlockedAccountPenalised ==
    \A b \in BatchIds :
        pb_blocked[b] # NoAccount =>
            /\ accounts[pb_blocked[b]].error_count > 0
            /\ accounts[pb_blocked[b]].cooldown_until > 0
            /\ pb_pc[b] = "fetch1" =>
                  \/ pb_account[b] # pb_blocked[b]
                  \/ ~is_in_cooldown(pb_blocked[b])

\* C28: in one run of the retry loop of _fetch_comments_with_retry the session
\* is refreshed (update_cookies) once the second attempt has failed, and a third
\* attempt follows: no post ends its loop on the failure of its second attempt,
\* and by then update_cookies has been called
C28_RefreshAfterSecondFailure ==
    \A u \in Units :
        unit_result[u] = "exhausted" => cookie_updates >= 1


-----------------------------------------------------------------------------
(* Claims on the delay between requests *)

\* C31: the delay between requests is waited before the request of a post goes
\* out, not after it, and the delay computed by _calculate_delay is neither
\* shorter than min_delay nor longer than max_delay
C31_DelayBeforeRequestWithinBounds ==
    /\ pace_pc = "request" => pace_slept
    /\ (pace_fn = "process_batch" /\ pace_pc = "sleeping")
          => (pace_min_delay <= pace_delay /\ pace_delay <= pace_max_delay)


-----------------------------------------------------------------------------
(* Claims on rotate_proxy *)

\* C32: rotate_proxy always returns: it makes at most max_attempts = 3 attempts
\* to get and test a proxy, returns the proxy of the first attempt whose test
\* answers 200, and returns (None, None) when no attempt does (or when there is
\* no pool); it neither blocks nor raises
C32_RotateProxyTerminates ==
    /\ [](/\ Len(rp_outcomes) <= max_attempts
          /\ \A i \in 1..Len(rp_outcomes) :
                rp_outcomes[i] = "ok" => (i = Len(rp_outcomes) /\ rp_result = "proxy")
          /\ rp_result = "proxy" =>
                (Len(rp_outcomes) > 0 /\ rp_outcomes[Len(rp_outcomes)] = "ok")
          /\ rp_result = "null" =>
                /\ rp_pc = "returned"
                /\ Len(rp_outcomes) = (IF rp_pool THEN max_attempts ELSE 0))
    /\ <>(rp_pc = "returned" /\ rp_result \in {"proxy", "null"})

\* three attempts were made, one rejected by its status and one by an error,
\* and (None, None) was returned
C32_Witness ==
    /\ rp_pc = "returned"
    /\ rp_result = "null"
    /\ Len(rp_outcomes) = max_attempts
    /\ \E i, j \in 1..Len(rp_outcomes) :
          rp_outcomes[i] = "status" /\ rp_outcomes[j] = "error"


-----------------------------------------------------------------------------
(* Claims on the accounts of the scheduled tasks *)

\* C33: every task handed to the executor carries an account, whatever
\* accounts the platform has (none included)
C33_EveryTaskHasAccount ==
    \A i \in TaskSlots : worker_pc[i] # "none" => task_account[i] # 0


-----------------------------------------------------------------------------
(* Claims on the units recorded as succeeded *)

\* C34: a post is added to success_post_ids by a run only when a request for it
\* has just returned without an error; a post whose every request raised is
\* not added
C34_SucceededOnlyAfterCleanRequest ==
    [][\A u \in Units :
          (main_pc # "init" /\ u \notin success_post_ids /\ u \in success_post_ids')
             => unit_result'[u] = "ok"]_vars


-----------------------------------------------------------------------------
(* Claims on retry_failed_posts *)

\* C35: retry_failed_posts runs at most max_retries rounds, and when it has
\* returned every id that was in failed_post_ids at its call is in exactly one
\* of success_post_ids and failed_post_ids, and min_delay and max_delay have
\* the values they had at the call
C35_RetryLosesNoId ==
    /\ retry < RetryFailedMaxRetries
    /\ (main_pc \in {"closing", "returned"} /\ main_outcome \in {"none", "completed"})
          => /\ \A u \in retry_backlog :
                   (u \in success_post_ids) # (u \in failed_post_ids)
             /\ min_delay = InitMinDelay
             /\ max_delay = InitMaxDelay

\* retry_failed_posts has returned after its last round: one id of its backlog
\* succeeded in a round, another failed in every round
C35_Witness ==
    /\ main_pc = "closing"
    /\ main_outcome = "none"
    /\ retry = RetryFailedMaxRetries - 1
    /\ retry_backlog \cap success_post_ids # {}
    /\ retry_backlog \cap failed_post_ids # {}


-----------------------------------------------------------------------------
(* Claims on the snapshots of a retry round *)

\* C36: while retry_failed_posts re-runs its backlog, the progress file lists
\* as failed every id that was recorded as failed and has not succeeded since
C36_SnapshotsKeepFailedIds ==
    rr_pc \in {"gather", "round_done"} =>
        \A u \in (SeqRange(rr_to_retry) \cup rr_failed) \ rr_success :
            u \in rr_file.failed_post_ids


-----------------------------------------------------------------------------
(* Claims on the cooldown of an account *)

-----------------------------------------------------------------------------
(* Claims on the lock of the proxy pool *)

-----------------------------------------------------------------------------
(* Claims on a failing provider *)

\* C39: a provider call of get_proxy that adds no lease (it raised) ends in the
\* forced replenishment or in a return, never in an error; it leaves the leases
\* of the pool as they were; get_proxy then returns None if the pool is empty
\* and a lease of the pool otherwise.  With enable_proxy false get_proxy
\* returns None at once, without a provider call
C39_ProviderFailureAbsorbed ==
    /\ [](~enable_proxy =>
             \A c \in Callers :
                 /\ gp_pc[c] = "idle"
                 /\ gp_asked[c] = 0
                 /\ gp_trace[c].fetches = 0
                 /\ gp_result[c].kind \in {"none", "null"}
                 /\ gp_calls > 0 => \E d \in Callers : gp_result[d].kind = "null")
    /\ [][\A c \in Callers :
             (/\ gp_pc[c] \in {"replenish", "force_replenish"}
              /\ gp_pc'[c] # gp_pc[c]
              /\ Len(proxies') <= Len(proxies))
             => /\ gp_pc'[c] \in {"force_replenish", "idle"}
                /\ {proxies'[i].expired_time_ts : i \in 1..Len(proxies')}
                      = {proxies[i].expired_time_ts : i \in 1..Len(proxies)}
                /\ gp_pc'[c] = "idle" =>
                      IF proxies = <<>>
                      THEN gp_result'[c].kind = "null"
                      ELSE /\ gp_result'[c].kind = "lease"
                           /\ \E i \in 1..Len(proxies) :
                                 proxies[i].expired_time_ts
                                     = gp_result'[c].expired_time_ts]_vars

\* both provider calls of a get_proxy added nothing to a pool that was not
\* empty, and the call returned a lease of that pool
C39_Witness ==
    \E c \in Callers :
        /\ gp_pc[c] = "idle"
        /\ gp_result[c].kind = "lease"
        /\ gp_result[c].at = clock
        /\ gp_trace[c].fetches = 2
        /\ gp_trace[c].entry_size = Len(proxies)


-----------------------------------------------------------------------------
(* Claims on the progress file *)

====
